---- MODULE Spec2Model ----
(***************************************************************************)
(* InsightLite client SDK: the event delivery engine.                      *)
(*   InsightLiteSDK  (src/src/sdk/core.ts)                                 *)
(*   SessionManager  (src/unnamed/part_003, imported as ./session)         *)
(*   EventCollector  (src/src/sdk/events.ts)                               *)
(*   PerformanceMonitor (src/src/sdk/performance.ts)                       *)
(*   EventTransport  (src/unnamed/part_005, imported as ./transport)       *)
(* The browser is single threaded: every action below is one macrotask     *)
(* (a public call, a DOM event, a timer callback or an I/O completion)     *)
(* run to completion together with the microtasks it queues.               *)
(***************************************************************************)
EXTENDS Integers, Sequences, FiniteSets, TLC

(* ------------------------------ bounds -------------------------------- *)
\* track()/page-view calls made on one instance
MaxCalls == 2
\* the same, in the runs of the whole SDK with its transport
FullCalls == 1
\* the same, in the runs that follow one batch through its retries
RetryCalls == 1
\* largest configured flushSize
MaxFlushSize == 2
\* largest configured maxRetries (6 retries reach the 30000 ms cap)
MaxRetries == 6
\* the configured maxRetries in the runs of the whole SDK
MaxRetriesCore == 1
\* clock ticks
MaxTime == 1
\* 'close' events delivered by the sockets of one instance
MaxCloses == 1
\* 'resize' callbacks delivered to the collector
MaxResizes == 1
\* shouldTrackSession calls made on the session managers of one page
MaxAsks == 2
\* session managers constructed on the same store after the first
MaxLoads == 1
\* largest pageCount and eventCount followed
MaxCount == 1
\* open tabs that share one localStorage
MaxTabs == 2
\* setItem/removeItem calls followed on that store
MaxTabWrites == 3

\* longest siteId handed to hashSessionId
MaxSiteLen == 2

\* how far the clock is followed past the session timeout (ms)
MaxSkew == 1
\* nesting depth of the payloads, pieces of a text, successive sanitizeData calls
MaxDepth == 2
MaxPieces == 2
MaxPasses == 2
\* track() calls made by the pointer handlers, accepted mouse moves
MaxPointerCalls == 2
MaxMoves == 5
\* send() calls followed under a rate limit, windows of time followed
MaxSends == 3
MaxWindows == 1
\* 'resize' callbacks followed beyond those that fill the buffer to 2 * flushSize
MaxOverflow == 2
\* 'close' events followed beyond maxReconnectAttempts
MaxExtraCloses == 2
\* query parameters of a URL
MaxParams == 2

(* ------------------------- program constants -------------------------- *)
\* EventTransport constructor: batchSize: 100
batchSize == 100
\* EventTransport.maxReconnectAttempts
maxReconnectAttempts == 5
\* retryWithBackoff: base delay and cap, in ms
retryBaseDelay == 1000
retryMaxDelay == 30000

(* ------------------------------ helpers ------------------------------- *)
Min(a, b) == IF a < b THEN a ELSE b

RECURSIVE Pow2(_)
Pow2(n) == IF n <= 0 THEN 1 ELSE 2 * Pow2(n - 1)

Ids(s) == {s[i].id : i \in 1..Len(s)}

(* --------------------------- SessionManager --------------------------- *)
\* private sessionTimeout = 30 * 60 * 1000
sessionTimeout == 1800000
\* rateLimit: { requests: 2, window: 1000 }
limitRequests == 2
limitWindow == 1000

\* hashString keeps the hash as a 32-bit integer (hash & hash); the model
\* carries it as two 16-bit limbs so that 31*hash + char wraps at 2^32.
RECURSIVE hashLimbs(_, _, _)
hashLimbs(str, hi, lo) ==
    IF str = <<>> THEN <<hi, lo>>
    ELSE LET l  == 31 * lo + Head(str)
             h  == 31 * hi + (l \div 65536)
         IN  hashLimbs(Tail(str), h % 65536, l % 65536)

\* Math.abs(hash) % 10000, the only use makeSamplingDecision makes of it
hashMod10000(str) ==
    LET p      == hashLimbs(str, 0, 0)
        signed == IF p[1] >= 32768 THEN (p[1] - 65536) * 65536 + p[2]
                  ELSE p[1] * 65536 + p[2]
    IN  IF signed = (-2147483647) - 1 THEN 3648
        ELSE IF signed < 0 THEN (-signed) % 10000
        ELSE signed % 10000

m_makeSamplingDecision(sid, sampleRate) == hashMod10000(sid) <= sampleRate

\* sample rates are carried in 1/10000 units: normalized < sampleRate
makeSamplingDecision(sid, sampleRate) == hashMod10000(sid) < sampleRate

m_shouldTrackSession(decision, sid, sampleRate) ==
    makeSamplingDecision(sid, sampleRate)

\* samplingDecision is <<>> (null) until the first call, then <<boolean>>;
\* the value returned by shouldTrackSession(sampleRate)
shouldTrackSession(decision, sid, sampleRate) ==
    IF decision = <<>> THEN makeSamplingDecision(sid, sampleRate)
    ELSE decision[1]

m_isSessionValid(session, t) == t - session.lastActivity <= sessionTimeout

\* isSessionValid(session) at Date.now() = t
isSessionValid(session, t) == t - session.lastActivity < sessionTimeout

\* updateActivity: metadata.lastActivity = Date.now()
updateActivity(md, t) == [md EXCEPT !.lastActivity = t]

incrementPageCount(md, t) ==
    updateActivity([md EXCEPT !.pageCount = @ + 1], t)

incrementEventCount(md, t) ==
    updateActivity([md EXCEPT !.eventCount = @ + 1], t)


m_sessionShouldTrackEvent(decision) == decision # <<FALSE>>

\* SessionManager.shouldTrackEvent returns samplingDecision === true
sessionShouldTrackEvent(decision) == decision = <<TRUE>>

(* -------------------------- PerformanceMonitor ------------------------ *)
\* metrics: cpu in percent of the 5 s window, mem in MB, lat in ms
MetricsValues ==
    { [cpu |-> 0,  mem |-> 1,  lat |-> 0],
      [cpu |-> 90, mem |-> 60, lat |-> 1200] }

shouldReduceActivity(m) == m.cpu > 80 \/ m.mem > 50 \/ m.lat > 1000

shouldThrottleEvents(m) == m.cpu > 60 \/ m.mem > 20 \/ m.lat > 500

\* score in percent (renderTime stays 0 in the model)
calculatePerformanceScore(m) ==
    100 - Min((m.cpu * 40) \div 100, 40)
        - (Min(m.mem, 100) * 30) \div 100
        - (Min(m.lat, 2000) * 20) \div 2000

getAdaptiveSampleRate(base, m) ==
    IF calculatePerformanceScore(m) < 50 THEN (base * 50) \div 100
    ELSE IF calculatePerformanceScore(m) < 70 THEN (base * 75) \div 100
    ELSE base

(* ---------------------------- EventCollector -------------------------- *)
\* rnd is Math.random() in 1/10000 units, 0 <= rnd < 10000
shouldCollectEvent(type, m, rnd, rate) ==
    IF type = "error" THEN TRUE
    ELSE IF shouldReduceActivity(m) THEN FALSE
    ELSE rnd < rate

m_addEvent(evs, e, collect, flushSize) ==
    IF ~collect THEN evs
    ELSE LET a == Append(evs, e)
         IN  IF Len(a) > flushSize * 2 + 1
             THEN SubSeq(a, Len(a) - flushSize + 1, Len(a))
             ELSE a

addEvent(evs, e, collect, flushSize) ==
    IF ~collect THEN evs
    ELSE LET a == Append(evs, e)
         IN  IF Len(a) > flushSize * 2
             THEN SubSeq(a, Len(a) - flushSize + 1, Len(a))
             ELSE a

(* ---------------------- PrivacyEngine.hashSessionId -------------------- *)
\* Number.prototype.toString(36) of a non-negative integer, as the values
\* of its digits
RECURSIVE toString36(_)
toString36(n) ==
    IF n < 36 THEN <<n>> ELSE Append(toString36(n \div 36), n % 36)

\* hashSessionId(sessionId, siteId): the strings are sequences of char
\* codes; the loop is the one of hashString, and Math.abs of the 32-bit
\* result is at most 2^31, whose digits in base 36 are those of 'zik0zk'
hashSessionId(sid, siteId) ==
    LET p      == hashLimbs(sid \o <<58>> \o siteId, 0, 0)
        signed == IF p[1] >= 32768 THEN (p[1] - 65536) * 65536 + p[2]
                  ELSE p[1] * 65536 + p[2]
    IN  IF signed = (-2147483647) - 1 THEN <<35, 18, 20, 0, 35, 20>>
        ELSE IF signed < 0 THEN toString36(-signed)
        ELSE toString36(signed)

(* --------------------------- InsightLiteSDK --------------------------- *)
\* `isInitialized && !isDestroyed && sessionManager.shouldTrackEvent()`:
\* && short-circuits, so the session manager (and its updateActivity) is
\* reached only on an initialized, not destroyed instance.
m_reachesSessionManager(init, destroyed) == TRUE

reachesSessionManager(init, destroyed) == init /\ ~destroyed

shouldTrackEvent(init, destroyed, decision) ==
    reachesSessionManager(init, destroyed) /\ sessionShouldTrackEvent(decision)

\* track(): `if (getEventCount() >= flushSize) flush()`
m_bufferIsFull(count, flushSize) == count > flushSize

bufferIsFull(count, flushSize) == count >= flushSize

(* ----------------------- InsightLiteSDK, constructor ------------------- *)
\* String.prototype.trim on a string of the characters used here
RECURSIVE trimStart(_)
trimStart(str) ==
    IF str # <<>> /\ Head(str) = " " THEN trimStart(Tail(str)) ELSE str

RECURSIVE trimEnd(_)
trimEnd(str) ==
    IF str # <<>> /\ str[Len(str)] = " "
    THEN trimEnd(SubSeq(str, 1, Len(str) - 1))
    ELSE str

trim(str) == trimEnd(trimStart(str))

m_validateConfig(arg) ==
    IF arg = <<>> THEN "Configuration object is required"
    ELSE IF arg[1].siteId = <<>> \/ trim(arg[1].siteId[1]) = <<>>
    THEN "siteId is required and must be a non-empty string"
    ELSE IF arg[1].sampleRate # <<>>
            /\ (arg[1].sampleRate[1] < 0 \/ arg[1].sampleRate[1] > 10000)
    THEN "sampleRate must be a number between 0 and 1"
    ELSE IF arg[1].flushInterval # <<>> /\ arg[1].flushInterval[1] < 0
    THEN "flushInterval must be a number >= 1000ms"
    ELSE IF arg[1].flushSize # <<>> /\ arg[1].flushSize[1] < 1
    THEN "flushSize must be a positive number"
    ELSE ""

\* validateConfig(config): the message of the Error it throws, "" if none.
\* An option that is absent (undefined) is <<>>, a given one is <<value>>;
\* a falsy siteId is undefined or ''; sample rates are in 1/10000 units.
validateConfig(arg) ==
    IF arg = <<>> THEN "Configuration object is required"
    ELSE IF arg[1].siteId = <<>> \/ arg[1].siteId[1] = <<>>
            \/ trim(arg[1].siteId[1]) = <<>>
    THEN "siteId is required and must be a non-empty string"
    ELSE IF arg[1].sampleRate # <<>>
            /\ (arg[1].sampleRate[1] < 0 \/ arg[1].sampleRate[1] > 10000)
    THEN "sampleRate must be a number between 0 and 1"
    ELSE IF arg[1].flushInterval # <<>> /\ arg[1].flushInterval[1] < 1000
    THEN "flushInterval must be a number >= 1000ms"
    ELSE IF arg[1].flushSize # <<>> /\ arg[1].flushSize[1] < 1
    THEN "flushSize must be a positive number"
    ELSE ""

\* mergeWithDefaults(config): `??` keeps every given value
mergeWithDefaults(c) ==
    [sampleRate    |-> IF c.sampleRate = <<>> THEN 2000 ELSE c.sampleRate[1],
     flushInterval |-> IF c.flushInterval = <<>> THEN 5000 ELSE c.flushInterval[1],
     flushSize     |-> IF c.flushSize = <<>> THEN 50 ELSE c.flushSize[1]]

(* ---------------------------- EventTransport -------------------------- *)
\* An Error is known to the transport only through its message: http is the
\* number matched by /HTTP (\d+)/ (0 when the message has none), words the
\* phrases of the message that the classification looks for.
NoErr          == [name |-> "none",    http |-> 0, words |-> {}]
NetworkError   == [name |-> "network", http |-> 0, words |-> {"Network error"}]
RequestTimeout == [name |-> "timeout", http |-> 0, words |-> {"timeout"}]
NoValidEvents  == [name |-> "invalid", http |-> 0, words |-> {}]
SendFailed     == [name |-> "wsthrow", http |-> 0, words |-> {}]
\* `HTTP ${status}: ${statusText}`; statusText is chosen by the server
HttpError(status, statusText) ==
    [name |-> "http", http |-> status, words |-> statusText]

\* failures of one request on the discrete channel (XHR / fetch)
HttpFailures ==
    { NetworkError, RequestTimeout,
      HttpError(400, {}), HttpError(400, {"timeout"}),
      HttpError(429, {}), HttpError(500, {}) }
\* the two classes of them: one the transport retries, one it does not
FewHttpFailures == { NetworkError, HttpError(400, {}) }
\* failures of websocket.send
StreamFailures == { SendFailed }

extractHttpStatus(err) == err.http

m_isRetryableError(err) ==
    IF "Network error" \in err.words THEN TRUE
    ELSE IF "timeout" \in err.words THEN TRUE
    ELSE IF extractHttpStatus(err) # 0
         THEN extractHttpStatus(err) >= 500 \/ extractHttpStatus(err) = 429
    ELSE FALSE

isRetryableError(err) ==
    IF "Network error" \in err.words THEN TRUE
    ELSE IF "timeout" \in err.words THEN TRUE
    ELSE IF extractHttpStatus(err) # 0
         THEN extractHttpStatus(err) >= 500 \/ extractHttpStatus(err) = 429
    ELSE TRUE

\* the type, sessionId and timestamp of an event must be truthy; Date.now()
\* always is, the type is the caller's, and the collector's own 'resize'
\* events carry sessionId ''
validateEvent(e) == e.sessionId # <<>> /\ e.type # ""

validEvents(evs) == SelectSeq(evs, validateEvent)

m_backoffDelay(k) == Min(retryBaseDelay * Pow2(k), retryMaxDelay)

\* delay before the k-th retry (k = queuedEvent.retryCount after ++)
backoffDelay(k) == Min(retryBaseDelay * Pow2(k - 1), retryMaxDelay)

\* the failure classes of the retry policy: "transient" is a network error,
\* a timeout, an HTTP 5xx or an HTTP 429; "client" any other HTTP status;
\* "other" a failure that carries no HTTP status and is neither a network
\* error nor a timeout (no valid event, an exception thrown by websocket.send)
errClass(err) ==
    IF err.name \in {"network", "timeout"} THEN "transient"
    ELSE IF err.name = "http"
         THEN IF err.http >= 500 \/ err.http = 429 THEN "transient" ELSE "client"
    ELSE "other"

\* queuedEvent of sendBatch, with the history the properties speak about:
\* attempts (_attemptSend calls), delays (setTimeout arguments), success and
\* error (notifications emitted), last (class of the latest failed attempt),
\* pure (every finished attempt so far failed with a transient error),
\* awaited (the events whose flush() promise is awaiting this sendBatch)
NewQueuedEvent(evs) ==
    [events |-> evs, retryCount |-> 0, phase |-> "pending", attempts |-> 0,
     delays |-> <<>>, success |-> 0, error |-> 0,
     last |-> "none", pure |-> TRUE, awaited |-> {}]

noteFailure(q, err) ==
    [q EXCEPT !.last = errClass(err),
              !.pure = @ /\ errClass(err) = "transient"]

retryWithBackoff(q) ==
    [q EXCEPT !.retryCount = @ + 1,
              !.delays = Append(@, backoffDelay(q.retryCount + 1)),
              !.phase = "backoff"]

m_mayRetry(q, err, maxRetries) ==
    isRetryableError(err) /\ q.retryCount <= maxRetries

mayRetry(q, err, maxRetries) ==
    isRetryableError(err) /\ q.retryCount < maxRetries

m_handleSendError(q, err, maxRetries) ==
    IF mayRetry(noteFailure(q, err), err, maxRetries)
    THEN [retryWithBackoff(noteFailure(q, err)) EXCEPT !.error = @ + 1]
    ELSE [noteFailure(q, err) EXCEPT !.phase = "failed", !.error = @ + 1]

handleSendError(q, err, maxRetries) ==
    IF mayRetry(noteFailure(q, err), err, maxRetries)
    THEN retryWithBackoff(noteFailure(q, err))
    ELSE [noteFailure(q, err) EXCEPT !.phase = "failed", !.error = @ + 1]

\* _attemptSend up to its first await: validation, then compression starts
attemptSend(q, maxRetries) ==
    IF validEvents(q.events) = <<>>
    THEN handleSendError([q EXCEPT !.attempts = @ + 1], NoValidEvents, maxRetries)
    ELSE [q EXCEPT !.attempts = @ + 1, !.phase = "sending"]

sendSucceeded(q) ==
    [q EXCEPT !.phase = "success", !.success = @ + 1, !.pure = FALSE]


(* ----------------------------- PrivacyEngine -------------------------- *)
\* A string is the sequence of its characters.  The two mask glyphs are not
\* ASCII: they are named by their code points.
maskChar  == "U+25CF"
blockChar == "U+2588"

DigitChars == <<"0", "1", "2", "3", "4", "5", "6", "7", "8", "9">>
Lower == <<"a", "b", "c", "d", "e", "f", "g", "h", "i", "j", "k", "l", "m",
           "n", "o", "p", "q", "r", "s", "t", "u", "v", "w", "x", "y", "z">>
Upper == <<"A", "B", "C", "D", "E", "F", "G", "H", "I", "J", "K", "L", "M",
           "N", "O", "P", "Q", "R", "S", "T", "U", "V", "W", "X", "Y", "Z">>
Digits == {DigitChars[i] : i \in DOMAIN DigitChars}
Letters == {Lower[i] : i \in DOMAIN Lower} \cup {Upper[i] : i \in DOMAIN Upper}

\* String.prototype.toLowerCase, String.prototype.includes, .replace(/[-_]/g, '')
toLowerCase(str) ==
    [i \in DOMAIN str |->
        IF \E j \in DOMAIN Upper : Upper[j] = str[i]
        THEN Lower[CHOOSE j \in DOMAIN Upper : Upper[j] = str[i]]
        ELSE str[i]]

includes(str, part) ==
    \E i \in 0..(Len(str) - Len(part)) :
        \A j \in 1..Len(part) : str[i + j] = part[j]

IsSeparator(c) == c \in {"-", "_"}

removeSeparators(str) == SelectSeq(str, LAMBDA c : ~IsSeparator(c))

repeat(c, n) == [i \in 1..n |-> c]

\* String(n) of a non-negative integer
RECURSIVE decimal(_)
decimal(n) ==
    IF n < 10 THEN <<DigitChars[n + 1]>>
    ELSE Append(decimal(n \div 10), DigitChars[(n % 10) + 1])

\* JavaScript values: null, numbers, strings, arrays, plain objects, and a
\* reference to an object that encloses the place where it stands (a cycle)
vNull      == [k |-> "null",   s |-> <<>>, n |-> 0, e |-> <<>>]
vCycle     == [k |-> "cycle",  s |-> <<>>, n |-> 0, e |-> <<>>]
vStr(str)  == [k |-> "string", s |-> str,  n |-> 0, e |-> <<>>]
vNum(num)  == [k |-> "number", s |-> decimal(num), n |-> num, e |-> <<>>]
\* an array of items; its entries carry no key
vArray(items) ==
    [k |-> "array", s |-> <<>>, n |-> 0,
     e |-> [i \in DOMAIN items |-> [key |-> <<>>, val |-> items[i]]]]
\* an object: entries in Object.entries order, keys distinct
vObject(entries) == [k |-> "object", s |-> <<>>, n |-> 0, e |-> entries]

ObjectString == <<"[", "o", "b", "j", "e", "c", "t", " ",
                  "O", "b", "j", "e", "c", "t", "]">>
Circular == <<"[", "C", "i", "r", "c", "u", "l", "a", "r", "]">>

RECURSIVE joinLength(_, _)
RECURSIVE stringLength(_)
\* String(value).length; Array.prototype.join renders null as ''
stringLength(v) ==
    CASE v.k = "null"   -> 4
      [] v.k = "object" -> Len(ObjectString)
      [] v.k = "cycle"  -> Len(ObjectString)
      [] v.k = "array"  -> joinLength(v.e, 1)
      [] OTHER          -> Len(v.s)

joinLength(entries, i) ==
    IF i > Len(entries) THEN 0
    ELSE (IF entries[i].val.k = "null" THEN 0 ELSE stringLength(entries[i].val))
         + (IF i < Len(entries) THEN 1 ELSE 0)
         + joinLength(entries, i + 1)

sensitiveFields ==
    { <<"e","m","a","i","l">>, <<"p","a","s","s","w","o","r","d">>,
      <<"p","a","s","s">>, <<"p","w","d">>, <<"t","o","k","e","n">>,
      <<"k","e","y">>, <<"f","i","r","s","t","n","a","m","e">>,
      <<"l","a","s","t","n","a","m","e">>, <<"p","h","o","n","e">>,
      <<"t","e","l">>, <<"m","o","b","i","l","e">>, <<"s","s","n">>,
      <<"s","o","c","i","a","l">>,
      <<"c","r","e","d","i","t","c","a","r","d">>,
      <<"c","a","r","d","n","u","m","b","e","r">>,
      <<"u","s","e","r","i","d">>,
      <<"c","u","s","t","o","m","e","r","i","d">>,
      <<"s","e","s","s","i","o","n","i","d">> }

m_isSensitiveField(fieldName) ==
    \E t \in sensitiveFields : includes(toLowerCase(fieldName), t)

isSensitiveField(fieldName) ==
    \E t \in sensitiveFields :
        includes(removeSeparators(toLowerCase(fieldName)), t)

m_maskValue(value) ==
    IF value.k = "string" THEN vStr(repeat(maskChar, Len(value.s))) ELSE value

\* masks the JSON text of the value, quotes included
m_maskValueQuoted(value) ==
    IF value.k = "null" THEN vStr(<<>>)
    ELSE vStr(repeat(maskChar, stringLength(value) + 2))

maskValue(value) ==
    IF value.k = "null" THEN vStr(<<>>)
    ELSE vStr(repeat(maskChar, stringLength(value)))

anonymizeText(text) == repeat(blockChar, Len(text))

truncateCoordinates(coords) ==
    [x |-> (coords.x \div 10) * 10, y |-> (coords.y \div 10) * 10]

\* The data patterns.  A pattern is a sequence of items: a character class
\* with a repetition range (hi = -1: unbounded) or the assertion \b.
Word  == Digits \cup Letters \cup {"_"}
Space == {" "}

wordBoundary  == [set |-> {}, lo |-> 0, hi |-> 0, b |-> TRUE]
rep(S, lo, hi) == [set |-> S, lo |-> lo, hi |-> hi, b |-> FALSE]
one(S)  == rep(S, 1, 1)
opt(S)  == rep(S, 0, 1)
many(S) == rep(S, 1, -1)

\* /\b[\w\.-]+@[\w\.-]+\.\w+\b/g
emailPattern ==
    << wordBoundary, many(Word \cup {".", "-"}), one({"@"}),
       many(Word \cup {".", "-"}), one({"."}), many(Word), wordBoundary >>

\* /\b(?:\+1[-.\s]?)?\(?[0-9]{3}\)?[-.\s]?[0-9]{3}[-.\s]?[0-9]{4}\b/g :
\* the two ways through the optional group
phoneNumber ==
    << opt({"("}), rep(Digits, 3, 3), opt({")"}), opt({"-", "."} \cup Space),
       rep(Digits, 3, 3), opt({"-", "."} \cup Space), rep(Digits, 4, 4),
       wordBoundary >>

phonePatterns ==
    { <<wordBoundary>> \o phoneNumber,
      <<wordBoundary, one({"+"}), one({"1"}), opt({"-", "."} \cup Space)>>
          \o phoneNumber }

\* /\b\d{3}[-\s]?\d{2}[-\s]?\d{4}\b/g
ssnPattern ==
    << wordBoundary, rep(Digits, 3, 3), opt({"-"} \cup Space),
       rep(Digits, 2, 2), opt({"-"} \cup Space), rep(Digits, 4, 4),
       wordBoundary >>

\* /\b(?:\d{4}[-\s]?){3}\d{4}\b/g
creditCardPattern ==
    << wordBoundary,
       rep(Digits, 4, 4), opt({"-"} \cup Space),
       rep(Digits, 4, 4), opt({"-"} \cup Space),
       rep(Digits, 4, 4), opt({"-"} \cup Space),
       rep(Digits, 4, 4), wordBoundary >>

\* /\b(?:[0-9]{1,3}\.){3}[0-9]{1,3}\b/g
ipAddressPattern ==
    << wordBoundary,
       rep(Digits, 1, 3), one({"."}), rep(Digits, 1, 3), one({"."}),
       rep(Digits, 1, 3), one({"."}), rep(Digits, 1, 3), wordBoundary >>

\* in the insertion order of the Map
dataPatterns ==
    << {emailPattern}, phonePatterns, {ssnPattern}, {creditCardPattern},
       {ipAddressPattern} >>

\* \b at position p (p characters precede it)
isBoundary(text, p) ==
    (p > 0 /\ text[p] \in Word) # (p < Len(text) /\ text[p + 1] \in Word)

\* the length of the longest run of characters of S that starts after p
RECURSIVE runLength(_, _, _, _)
runLength(text, p, S, hi) ==
    IF hi = 0 \/ p >= Len(text) \/ text[p + 1] \notin S THEN 0
    ELSE 1 + runLength(text, p + 1, S, hi - 1)

\* the positions at which items k.. of the pattern can end, starting at p
RECURSIVE endsFrom(_, _, _, _)
endsFrom(pattern, k, text, p) ==
    IF k > Len(pattern) THEN {p}
    ELSE LET it == pattern[k]
         IN  IF it.b
             THEN IF isBoundary(text, p) THEN endsFrom(pattern, k + 1, text, p)
                  ELSE {}
             ELSE UNION { endsFrom(pattern, k + 1, text, p + n) :
                            n \in it.lo..runLength(text, p, it.set, it.hi) }

\* the end of the match that starts at p, or -1.  Every quantifier is greedy
\* and, in these patterns, the first match the engine finds is the longest.
matchEnd(patterns, text, p) ==
    LET ends == UNION { endsFrom(a, 1, text, p) : a \in patterns } \ {p}
    IN  IF ends = {} THEN -1
        ELSE CHOOSE e \in ends : \A f \in ends : f <= e

\* the characters covered by the successive matches of a global replace
RECURSIVE matched(_, _, _)
matched(patterns, text, p) ==
    IF p >= Len(text) THEN {}
    ELSE LET e == matchEnd(patterns, text, p)
         IN  IF e < 0 THEN matched(patterns, text, p + 1)
             ELSE ((p + 1)..e) \cup matched(patterns, text, e)

\* text.replace(pattern, match => maskChar.repeat(match.length))
replacePattern(text, patterns) ==
    LET m == matched(patterns, text, 0)
    IN  [i \in 1..Len(text) |-> IF i \in m THEN maskChar ELSE text[i]]

RECURSIVE applyPatterns(_, _)
applyPatterns(text, k) ==
    IF k > Len(dataPatterns) THEN text
    ELSE applyPatterns(replacePattern(text, dataPatterns[k]), k + 1)

sanitizeTextPatterns(text) == applyPatterns(text, 1)

RECURSIVE sanitizeValue(_)
\* _sanitizeValue(value, visited): the only value found in `visited` is a
\* reference to an enclosing object
sanitizeValue(value) ==
    CASE value.k = "cycle"  -> vStr(Circular)
      [] value.k = "string" -> vStr(sanitizeTextPatterns(value.s))
      [] value.k = "array"  ->
            [value EXCEPT !.e = [i \in DOMAIN value.e |->
                [key |-> <<>>, val |-> sanitizeValue(value.e[i].val)]]]
      [] value.k = "object" ->
            [value EXCEPT !.e = [i \in DOMAIN value.e |->
                [key |-> value.e[i].key,
                 val |-> IF isSensitiveField(value.e[i].key)
                         THEN maskValue(value.e[i].val)
                         ELSE sanitizeValue(value.e[i].val)]]]
      [] OTHER -> value

sanitizeData(data) ==
    IF data.k = "null" THEN data ELSE sanitizeValue(data)

\* the bracket selectors of sensitiveInputSelectors
sensitiveAttributes == {"data-sensitive", "data-private", "data-personal"}

\* element?.hasAttribute(name): element is <<>> (undefined) or <<attributes>>
hasAttribute(element, name) == element # <<>> /\ name \in element[1]

isSensitiveInput(target, element) ==
    \/ target.type \in {"password", "email"}
    \/ target.name # <<>> /\ isSensitiveField(target.name)
    \/ \E a \in sensitiveAttributes : hasAttribute(element, a)

shouldMaskInput(mode, target, element) ==
    CASE mode = "strict"     -> TRUE
      [] mode = "permissive" -> \/ hasAttribute(element, "data-sensitive")
                                \/ hasAttribute(element, "data-private")
                                \/ target.type = "password"
      [] OTHER               -> isSensitiveInput(target, element)

\* formEvent is <<>> (null) or <<[target, eventType]>>, its target <<>> or
\* <<[type, name, value]>>
sanitizeFormEvent(mode, formEvent, element) ==
    IF formEvent = <<>> THEN formEvent
    ELSE IF formEvent[1].target = <<>> THEN formEvent
    ELSE LET target == formEvent[1].target[1]
         IN  IF shouldMaskInput(mode, target, element)
             THEN << [formEvent[1] EXCEPT !.target =
                        << [target EXCEPT !.value = maskValue(vStr(@)).s] >>] >>
             ELSE formEvent


(* ----------------------- PrivacyEngine.sanitizeUrl --------------------- *)
\* The text of a URL is kept in its written parts: origin ("" when the text
\* does not start with a scheme and host), path ("" when nothing is written
\* between the host and the '?'), query (<<>> when there is no '?', else
\* <<the k=v pairs between the '&'>>).  A key is a string, a value the
\* sequence of its written characters, an escape such as %20 being one.
NoUrl == [origin |-> "", path |-> "", query |-> <<>>]

\* `new URL(url)` with no base throws on a text without scheme
parses(u) == u.origin # ""

\* application/x-www-form-urlencoded parsing of one written character
percentDecode(c) ==
    IF c \in {"+", "%20"} THEN " "
    ELSE IF c = "%40" THEN "@"
    ELSE IF c = "%E2%97%8F" THEN maskChar
    ELSE c

\* ... and serializing of one character
percentEncode(c) ==
    IF c = " " THEN "+"
    ELSE IF c = "@" THEN "%40"
    ELSE IF c = maskChar THEN "%E2%97%8F"
    ELSE c

decodeValue(v) == [i \in DOMAIN v |-> percentDecode(v[i])]
encodeValue(v) == [i \in DOMAIN v |-> percentEncode(v[i])]

\* urlObj.searchParams: the list of decoded name-value pairs
searchParams(u) ==
    IF u.query = <<>> THEN <<>>
    ELSE [i \in DOMAIN u.query[1] |->
             [key |-> u.query[1][i].key, value |-> decodeValue(u.query[1][i].value)]]

has(params, name) == \E i \in DOMAIN params : params[i].key = name

firstIndex(params, name) ==
    CHOOSE i \in DOMAIN params :
        params[i].key = name /\ \A j \in 1..(i - 1) : params[j].key # name

\* URLSearchParams.set: the first pair of that name takes the value, the
\* other pairs of that name are removed
RECURSIVE setFrom(_, _, _, _, _)
setFrom(params, name, value, first, i) ==
    IF i > Len(params) THEN <<>>
    ELSE IF i = first
    THEN <<[key |-> name, value |-> value]>> \o setFrom(params, name, value, first, i + 1)
    ELSE IF params[i].key = name THEN setFrom(params, name, value, first, i + 1)
    ELSE <<params[i]>> \o setFrom(params, name, value, first, i + 1)

set(params, name, value) ==
    setFrom(params, name, value, firstIndex(params, name), 1)

sensitiveParams ==
    << "email", "token", "key", "password", "pass", "pwd",
       "user_id", "userid", "customer_id", "customerid",
       "session", "sessionid", "auth", "api_key", "apikey" >>

RECURSIVE maskParams(_, _)
maskParams(params, k) ==
    IF k > Len(sensitiveParams) THEN params
    ELSE maskParams(IF has(params, sensitiveParams[k])
                    THEN set(params, sensitiveParams[k], repeat(maskChar, 8))
                    ELSE params,
                    k + 1)

\* the path of an http(s) URL is never empty in its serialization
serializePath(path) == IF path = "" THEN "/" ELSE path

\* urlObj.toString(): the query is written anew only when set() updated it
serializeUrl(u, params, updated) ==
    [origin |-> u.origin,
     path   |-> serializePath(u.path),
     query  |-> IF ~updated THEN u.query
                ELSE <<[i \in DOMAIN params |->
                          [key |-> params[i].key,
                           value |-> encodeValue(params[i].value)]]>>]

sanitizeUrl(u) ==
    IF ~parses(u) THEN u
    ELSE serializeUrl(u, maskParams(searchParams(u), 1),
                      \E k \in DOMAIN sensitiveParams :
                          has(searchParams(u), sensitiveParams[k]))

(* ------------------------------- state -------------------------------- *)
VARIABLES
    config,              \* flushSize, maxRetries, sampleRate, wsAvailable and the
                         \* environment: callBudget, eventTypes, httpFailures
    now,                 \* Date.now()
    \* SessionManager
    sessionId, samplingDecision, metadata,
    stored,              \* localStorage record: <<>> or <<metadata>>
    \* InsightLiteSDK
    isInitialized, isDestroyed,
    listeners,           \* DOM listeners registered by setupEventListeners
    flushInterval,       \* setInterval of schedulePeriodicFlush is active
    perfInterval,        \* setInterval of startPerformanceMonitoring is active
    \* EventCollector
    events, effectiveSampleRate,
    \* PerformanceMonitor
    monitoring, metrics,
    \* EventTransport
    websocket,           \* "null" or the readyState of this.websocket
    isConnected, reconnectAttempts,
    reconnectTimers,     \* pending scheduleReconnect timeouts
    detachedClose,       \* close event still due from a socket dropped by disconnect()
    closes,              \* 'close' events delivered so far
    batchQueue, batchTimer, retryCount,
    batches,             \* every queuedEvent made by sendBatch, in creation order
    \* history
    calls,               \* track() calls made so far
    resizes,             \* debounced 'resize' callbacks run so far
    lastTrack,           \* what the latest track() call did
    handed,              \* ids of the events handed to a channel in some attempt
    flushResolved,       \* ids of the events of flush() calls whose promise resolved
    destroyFlushed,      \* ids of the events that destroy() flushed
    lastAsk,             \* the latest shouldTrackSession(rate) call and its result
    decidedRate,         \* the rate samplingDecision was computed with, -1 if unset
    loads,               \* SessionManager constructions after the first
    \* PrivacyEngine
    privacyMode,
    payload,             \* the data handed to sanitizeData
    passes,              \* what sanitizeData returned, applied to its own output
    formEvent, element,  \* the arguments of sanitizeFormEvent
    formOut,             \* <<>> or <<what sanitizeFormEvent returned>>
    \* pointer events
    enableHeatmaps,
    mouseMoveCounter,
    eventData,           \* per event id: the data track() stored and the
                         \* coordinates the DOM event carried
    \* EventTransport, rate limiter
    requestedLimit,      \* the rateLimit option given to the constructor
    rateLimit,           \* this.config.rateLimit: <<>> or <<[requests, window]>>
    rateLimitQueue,      \* the timestamps of its entries
    waiters,             \* checkRateLimit calls suspended in their setTimeout
    asked,               \* per send() call: when it was made
    admissions,          \* the calls that passed the limiter and when, in order
    \* EventTransport, stream history
    lastClose,           \* code of the latest 'close' event delivered, 0 if none
    abnormalRun,         \* abnormal closes in a row since the last 'open'
    \* `new InsightLiteSDK(given)`
    given,               \* the argument: <<>> or <<the configuration object>>
    thrown,              \* "pending" before the call, "returned" after it, or
                         \* the message of the Error it threw
    storeAccess,         \* localStorage getItem/setItem calls the constructor made
    \* PrivacyEngine.sanitizeUrl
    url,                 \* its argument
    urlOut,              \* <<>> or <<what it returned>>
    \* SessionManagers of several tabs on one localStorage
    tabs,                \* per tab: sessionId, metadata, samplingDecision
    shared,              \* the record of the storage key: <<>> or <<metadata>>
    inbox,               \* per tab: the 'storage' events not yet dispatched,
                         \* each the newValue of the event (<<>> is null)
    tabWrites,           \* setItem/removeItem calls made so far
    \* PrivacyEngine.hashSessionId
    hashArgs,            \* sessionId and the two siteIds it is called with
    hashOut              \* <<>> or <<the two strings it returned>>

sessionVars   == <<sessionId, samplingDecision, metadata, stored>>
coreVars      == <<isInitialized, isDestroyed, listeners, flushInterval, perfInterval>>
collectorVars == <<events, effectiveSampleRate>>
monitorVars   == <<monitoring, metrics>>
socketVars    == <<websocket, isConnected, reconnectAttempts, reconnectTimers,
                   detachedClose, closes>>
queueVars     == <<batchQueue, batchTimer, retryCount, batches>>
historyVars   == <<calls, resizes, lastTrack, handed, flushResolved, destroyFlushed>>
sessionHist   == <<lastAsk, decidedRate, loads>>
privacyVars   == <<privacyMode, payload, passes, formEvent, element, formOut>>
pointerVars   == <<enableHeatmaps, mouseMoveCounter, eventData>>
limiterVars   == <<requestedLimit, rateLimit, rateLimitQueue, waiters, asked,
                   admissions>>
streamHist    == <<lastClose, abnormalRun>>
ctorVars      == <<given, thrown, storeAccess>>
urlVars       == <<url, urlOut>>
tabVars       == <<tabs, shared, inbox, tabWrites>>
hashVars      == <<hashArgs, hashOut>>
asideVars     == <<privacyVars, pointerVars, limiterVars, streamHist, ctorVars,
                   urlVars, tabVars, hashVars>>
sdkState      == <<config, sessionHist, now, sessionVars, coreVars, collectorVars,
                   monitorVars, socketVars, queueVars, historyVars>>
vars == <<config, sessionHist, asideVars, now, sessionVars, coreVars, collectorVars, monitorVars,
          socketVars, queueVars, historyVars>>

\* generateSessionId: two identifiers whose hash fractions are 0.0097 and 0.6321
SessionIds == { <<97>>, <<97, 97, 97>> }
SampleRates == { 0, 5000, 10000 }
RandomValues == { 0, 4000, 9999 }
IdleMetrics == [cpu |-> 0, mem |-> 1, lat |-> 0]
\* lastTrack: id of the call, page (made by trackPageView), live (the call
\* passed shouldTrackEvent), queued (its event was put in the buffer), count
\* (buffer length after addEvent), dispatched (what it gave to transport.send)
NoTrack == [id |-> 0, page |-> FALSE, live |-> FALSE, queued |-> FALSE,
            count |-> 0, dispatched |-> <<>>]

\* the components below are exercised by specifications of their own
PrivacyIdle ==
    /\ privacyMode = "balanced"
    /\ payload = vNull
    /\ passes = <<>>
    /\ formEvent = <<>>
    /\ element = <<>>
    /\ formOut = <<>>

PointerIdle ==
    /\ enableHeatmaps = TRUE
    /\ mouseMoveCounter = 0
    /\ eventData = {}

\* the constructor copies apiEndpoint, wsEndpoint and maxRetries into
\* this.config and nothing else: config.rateLimit is undefined
LimiterIdle ==
    /\ requestedLimit = <<>>
    /\ rateLimit = <<>>
    /\ rateLimitQueue = <<>>
    /\ waiters = {}
    /\ asked = <<>>
    /\ admissions = <<>>

StreamIdle ==
    /\ lastClose = 0
    /\ abnormalRun = 0

UrlIdle ==
    /\ url = NoUrl
    /\ urlOut = <<>>

TabsIdle ==
    /\ tabs = <<>>
    /\ shared = <<>>
    /\ inbox = <<>>
    /\ tabWrites = 0

HashIdle ==
    /\ hashArgs = <<>>
    /\ hashOut = <<>>

\* the constructor has returned; what it was given is not followed
CtorIdle ==
    /\ given = <<>>
    /\ thrown = "returned"
    /\ storeAccess = 0

(* -------------------------------- Init -------------------------------- *)
\* State after `new InsightLiteSDK(config)` on an empty localStorage.
\* initialize() runs trackPageView() before it sets isInitialized, so the
\* track('page') inside it is evaluated with isInitialized = false.
Construct(fs, mr, sr, ws, sid, budget, types, failures) ==
      LET admitted == shouldTrackSession(<<>>, sid, sr)
          fresh    == [sessionId |-> sid, pageCount |-> 0, eventCount |-> 0,
                       lastActivity |-> 0]
          \* trackPageView: track('page', ...) then incrementPageCount()
          pageEv   == [id |-> 0, type |-> "page", sessionId |-> sid]
          tracked  == shouldTrackEvent(FALSE, FALSE, <<admitted>>)
          md       == IF admitted THEN incrementPageCount(fresh, 0) ELSE fresh
      IN  /\ config = [flushSize |-> fs, maxRetries |-> mr, sampleRate |-> sr,
                       wsAvailable |-> ws, callBudget |-> budget,
                       eventTypes |-> types,
                       httpFailures |-> failures]
          /\ now = 0
          /\ sessionId = sid
          /\ samplingDecision = <<admitted>>
          /\ metadata = md
          /\ stored = <<md>>
          /\ isInitialized = admitted
          /\ isDestroyed = FALSE
          /\ listeners = admitted
          /\ flushInterval = admitted
          /\ perfInterval = admitted
          /\ events = IF tracked THEN <<pageEv>> ELSE <<>>
          /\ effectiveSampleRate = sr
          /\ monitoring = admitted
          /\ metrics = IdleMetrics
          /\ websocket = IF admitted /\ ws THEN "CONNECTING" ELSE "null"
          /\ isConnected = FALSE
          /\ reconnectAttempts = 0
          /\ reconnectTimers = 0
          /\ detachedClose = "none"
          /\ closes = 0
          /\ batchQueue = <<>>
          /\ batchTimer = FALSE
          /\ retryCount = 0
          /\ batches = <<>>
          /\ calls = 0
          /\ resizes = 0
          /\ lastTrack = NoTrack
          /\ handed = {}
          /\ flushResolved = {}
          /\ destroyFlushed = {}
          \* shouldInitialize() has asked shouldTrackSession(config.sampleRate)
          /\ lastAsk = [n |-> 1, rate |-> sr, result |-> admitted]
          /\ decidedRate = sr
          /\ loads = 0

Init ==
    \E fs \in 1..MaxFlushSize, sr \in SampleRates, ws \in BOOLEAN,
       sid \in SessionIds :
        /\ Construct(fs, MaxRetriesCore, sr, ws, sid, FullCalls, {"test", ""},
                     FewHttpFailures)
        /\ PrivacyIdle /\ PointerIdle /\ LimiterIdle /\ StreamIdle /\ CtorIdle /\ UrlIdle /\ TabsIdle /\ HashIdle

\* the instance with the streaming channel available and well-formed events
TrackInit ==
    \E fs \in 1..MaxFlushSize, sr \in SampleRates, sid \in SessionIds :
        /\ Construct(fs, MaxRetriesCore, sr, TRUE, sid, MaxCalls,
                     {"test", "error"}, FewHttpFailures)
        /\ PrivacyIdle /\ PointerIdle /\ LimiterIdle /\ StreamIdle /\ CtorIdle /\ UrlIdle /\ TabsIdle /\ HashIdle

\* an admitted session that dispatches every event at once, for every maxRetries
RetryInit ==
    \E mr \in 0..MaxRetries :
        /\ Construct(1, mr, 10000, TRUE, <<97>>, RetryCalls, {"test", ""},
                     HttpFailures)
        /\ PrivacyIdle /\ PointerIdle /\ LimiterIdle /\ StreamIdle /\ CtorIdle /\ UrlIdle /\ TabsIdle /\ HashIdle


(* ----------------------- EventTransport, stepwise --------------------- *)
Settled(bs) ==
    UNION { bs[i].awaited : i \in { j \in 1..Len(bs) : bs[j].phase \in {"success", "failed"} } }

m_retryLimit == config.maxRetries - retryCount

\* handleSendError compares queuedEvent.retryCount, the count of the batch
\* itself, with this.config.maxRetries
retryLimit == config.maxRetries

\* the shared this.retryCount is incremented by every retryWithBackoff
retryCountAfter(q) == IF q.phase = "backoff" THEN retryCount + 1 ELSE retryCount

m_retryCountOnSettle(q, err) == retryCountAfter(q)

\* this.retryCount when an attempt of q has settled: sendBatch and
\* retryWithBackoff set it to 0 after a successful _attemptSend, and
\* handleSendError leaves it to retryWithBackoff
retryCountOnSettle(q, err) == IF err = NoErr THEN 0 ELSE retryCountAfter(q)

m_processBatch(queue, waiting) ==
    LET q == attemptSend([NewQueuedEvent(queue) EXCEPT !.awaited = waiting],
                         retryLimit)
    IN  [batchQueue |-> queue, batchTimer |-> FALSE,
         batches |-> Append(batches, q), retryCount |-> retryCountAfter(q),
         resolved |-> IF q.phase = "failed" THEN waiting ELSE {}]

\* processBatch() -> sendBatch(batch) up to the first await, for a non-empty
\* queue; waiting are the events whose flush() awaits the outcome
processBatch(queue, waiting) ==
    LET q == attemptSend([NewQueuedEvent(queue) EXCEPT !.awaited = waiting],
                         retryLimit)
    IN  [batchQueue |-> <<>>, batchTimer |-> FALSE,
         batches |-> Append(batches, q), retryCount |-> retryCountAfter(q),
         resolved |-> IF q.phase = "failed" THEN waiting ELSE {}]

m_send(evs) ==
    IF evs = <<>>
    THEN [batchQueue |-> batchQueue, batchTimer |-> batchTimer,
          batches |-> batches, retryCount |-> retryCount, resolved |-> {}]
    ELSE IF Len(evs \o batchQueue) >= batchSize
    THEN processBatch(evs \o batchQueue, Ids(evs))
    ELSE [batchQueue |-> evs \o batchQueue, batchTimer |-> TRUE,
          batches |-> batches, retryCount |-> retryCount, resolved |-> Ids(evs)]

\* send(events) up to its first await (no rateLimit is ever configured by
\* the constructor); resolved are the events whose send() promise is
\* already fulfilled when the caller's microtasks have run
send(evs) ==
    IF evs = <<>>
    THEN [batchQueue |-> batchQueue, batchTimer |-> batchTimer,
          batches |-> batches, retryCount |-> retryCount, resolved |-> {}]
    ELSE IF Len(batchQueue \o evs) >= batchSize
    THEN processBatch(batchQueue \o evs, Ids(evs))
    ELSE [batchQueue |-> batchQueue \o evs, batchTimer |-> TRUE,
          batches |-> batches, retryCount |-> retryCount, resolved |-> Ids(evs)]

\* private eventQueue: QueuedEvent[] = [] is copied and emptied by
\* flushQueuedEvents and written nowhere else: it is empty at all times
eventQueue == <<>>

\* getQueueSize(): eventQueue.length + batchQueue.length
getQueueSize == Len(eventQueue) + Len(batchQueue)

\* connect(): nothing to do on an OPEN or CONNECTING socket; `new WebSocket`
\* either yields a CONNECTING socket or throws (this.websocket keeps its value)
connect(ws) ==
    IF ws \in {"OPEN", "CONNECTING"} THEN ws
    ELSE IF config.wsAvailable THEN "CONNECTING"
    ELSE ws

m_handleWebSocketClose(code) ==
    /\ closes' = closes + 1
    /\ isConnected' = FALSE
    /\ IF code # 1000 /\ reconnectAttempts <= maxReconnectAttempts
       THEN /\ reconnectAttempts' = reconnectAttempts + 1
            /\ reconnectTimers' = reconnectTimers + 1
       ELSE UNCHANGED <<reconnectAttempts, reconnectTimers>>

\* handleWebSocketClose(event)
handleWebSocketClose(code) ==
    /\ closes' = closes + 1
    /\ isConnected' = FALSE
    /\ IF code # 1000 /\ reconnectAttempts < maxReconnectAttempts
       THEN /\ reconnectAttempts' = reconnectAttempts + 1
            /\ reconnectTimers' = reconnectTimers + 1
       ELSE UNCHANGED <<reconnectAttempts, reconnectTimers>>

HandleClose(code) ==
    /\ closes < MaxCloses
    /\ handleWebSocketClose(code)

(* ------------------------------ actions ------------------------------- *)
\* track(eventType, data); page = TRUE is trackPageView(), which calls
\* track('page', ...) and then sessionManager.incrementPageCount()
TrackBody(type, rnd, page) ==
    LET live    == shouldTrackEvent(isInitialized, isDestroyed, samplingDecision)
        reach   == reachesSessionManager(isInitialized, isDestroyed)
        e       == [id |-> calls + 1, type |-> type, sessionId |-> sessionId]
        collect == shouldCollectEvent(type, metrics, rnd, effectiveSampleRate)
        evs1    == IF live THEN addEvent(events, e, collect, config.flushSize)
                   ELSE events
        md1     == IF reach THEN updateActivity(metadata, now) ELSE metadata
        md2     == IF live THEN incrementEventCount(md1, now) ELSE md1
        md3     == IF page THEN incrementPageCount(md2, now) ELSE md2
        full    == live /\ bufferIsFull(Len(evs1), config.flushSize)
        out     == IF full THEN evs1 ELSE <<>>
        tr      == send(out)
    IN  /\ calls < config.callBudget
        /\ calls' = calls + 1
        /\ events' = IF full THEN <<>> ELSE evs1
        /\ metadata' = md3
        /\ stored' = IF reach \/ page THEN <<md3>> ELSE stored
        /\ batchQueue' = tr.batchQueue
        /\ batchTimer' = tr.batchTimer
        /\ batches' = tr.batches
        /\ retryCount' = tr.retryCount
        /\ flushResolved' = flushResolved \cup tr.resolved
        /\ lastTrack' = [id |-> calls + 1, page |-> page, live |-> live,
                         queued |-> live /\ (calls + 1) \in Ids(evs1),
                         count |-> IF live THEN Len(evs1) ELSE 0,
                         dispatched |-> out]
        /\ UNCHANGED <<config, sessionHist, now, sessionId, samplingDecision,
                       coreVars, effectiveSampleRate, monitorVars, socketVars,
                       resizes, handed, destroyFlushed>>

DoTrack(type, rnd, page) ==
    TrackBody(type, rnd, page) /\ UNCHANGED asideVars

Track ==
    \E type \in config.eventTypes, rnd \in RandomValues : DoTrack(type, rnd, FALSE)

\* handleVisibilityChange (page visible again) and the history hooks call
\* trackPageView(); removeEventListeners passes fresh .bind(this) functions,
\* which never match the registered ones, so the listeners outlive destroy()
PageView ==
    /\ listeners
    /\ \E rnd \in RandomValues : DoTrack("page", rnd, TRUE)

\* flush(): also what handleBeforeUnload and the page-hidden branch call
FlushBody ==
    IF ~isInitialized \/ isDestroyed
    THEN UNCHANGED <<events, queueVars, flushResolved>>
    ELSE LET tr == send(events)
         IN  /\ events' = <<>>
             /\ batchQueue' = tr.batchQueue
             /\ batchTimer' = tr.batchTimer
             /\ batches' = tr.batches
             /\ retryCount' = tr.retryCount
             /\ flushResolved' = flushResolved \cup tr.resolved

Flush ==
    /\ FlushBody
    /\ UNCHANGED <<config, sessionHist, asideVars, now, sessionVars, coreVars, effectiveSampleRate,
                   monitorVars, socketVars, calls, resizes, lastTrack, handed,
                   destroyFlushed>>

\* collectResizeEvent, the debounced 'resize' listener that the collector
\* registers in its constructor and removes in destroy(): it asks
\* shouldCollectEvent itself and then calls addEvent, which asks again
ResizeBody ==
    /\ ~isDestroyed
    /\ resizes' = resizes + 1
    /\ \E r1 \in RandomValues, r2 \in RandomValues :
         LET e == [id |-> 0 - (resizes + 1), type |-> "resize", sessionId |-> <<>>]
         IN  events' =
               IF shouldCollectEvent("resize", metrics, r1, effectiveSampleRate)
               THEN addEvent(events, e,
                        shouldCollectEvent("resize", metrics, r2, effectiveSampleRate),
                        config.flushSize)
               ELSE events
    /\ UNCHANGED <<config, sessionHist, asideVars, now, sessionVars, coreVars, effectiveSampleRate,
                   monitorVars, socketVars, queueVars, calls, lastTrack,
                   handed, flushResolved, destroyFlushed>>

Resize ==
    /\ resizes < MaxResizes
    /\ ResizeBody

\* callback of the setInterval made by schedulePeriodicFlush
PeriodicFlush ==
    /\ flushInterval
    /\ FlushBody
    /\ UNCHANGED <<config, sessionHist, asideVars, now, sessionVars, coreVars, effectiveSampleRate,
                   monitorVars, socketVars, calls, resizes, lastTrack, handed,
                   destroyFlushed>>

m_baseSampleRate == effectiveSampleRate

\* updatePerformanceConstraints: the rate handed to getAdaptiveSampleRate
\* is this.config.sampleRate
baseSampleRate == config.sampleRate

\* callback of the setInterval made by startPerformanceMonitoring
PerformanceCheck ==
    /\ perfInterval
    /\ effectiveSampleRate' = getAdaptiveSampleRate(baseSampleRate, metrics)
    /\ UNCHANGED <<config, sessionHist, asideVars, now, sessionVars, coreVars, events, monitorVars,
                   socketVars, queueVars, historyVars>>

\* PerformanceMonitor: the observers and the 5 s interval refresh the metrics
UpdateMetrics ==
    /\ monitoring
    /\ \E m \in MetricsValues : metrics' = m
    /\ UNCHANGED <<config, sessionHist, asideVars, now, sessionVars, coreVars, collectorVars, monitoring,
                   socketVars, queueVars, historyVars>>

\* destroy(): flush(); removeEventListeners(); transport.disconnect();
\* performanceMonitor.stopMonitoring(); eventCollector.destroy()
Destroy ==
    /\ ~isDestroyed
    /\ LET tr == IF isInitialized THEN send(events)
                 ELSE [batchQueue |-> batchQueue, batchTimer |-> batchTimer,
                       batches |-> batches, retryCount |-> retryCount,
                       resolved |-> {}]
       IN  /\ batchQueue' = tr.batchQueue
           /\ batches' = tr.batches
           /\ retryCount' = tr.retryCount
           /\ flushResolved' = flushResolved \cup tr.resolved
           /\ destroyFlushed' = IF isInitialized THEN Ids(events) ELSE {}
    \* disconnect()
    /\ detachedClose' = IF websocket = "OPEN" THEN "normal"
                        ELSE IF websocket = "CONNECTING" THEN "abnormal"
                        ELSE detachedClose
    /\ websocket' = "null"
    /\ isConnected' = FALSE
    /\ reconnectAttempts' = 0
    /\ batchTimer' = FALSE
    \* stopMonitoring(), eventCollector.destroy()
    /\ monitoring' = FALSE
    /\ events' = <<>>
    /\ isDestroyed' = TRUE
    /\ isInitialized' = FALSE
    /\ UNCHANGED <<config, sessionHist, asideVars, now, sessionVars, listeners, flushInterval,
                   perfInterval, effectiveSampleRate, metrics, reconnectTimers,
                   closes, calls, resizes, lastTrack, handed>>

Tick ==
    /\ now < MaxTime
    /\ now' = now + 1
    /\ UNCHANGED <<config, sessionHist, asideVars, sessionVars, coreVars, collectorVars, monitorVars,
                   socketVars, queueVars, historyVars>>

\* callback of the batchTimeout timer set by send(): processBatch()
BatchTimeout ==
    /\ batchTimer
    /\ LET tr == IF batchQueue = <<>>
                 THEN [batchQueue |-> <<>>, batchTimer |-> FALSE,
                       batches |-> batches, retryCount |-> retryCount,
                       resolved |-> {}]
                 ELSE processBatch(batchQueue, {})
       IN  /\ batchQueue' = tr.batchQueue
           /\ batchTimer' = tr.batchTimer
           /\ batches' = tr.batches
           /\ retryCount' = tr.retryCount
    /\ UNCHANGED <<config, sessionHist, asideVars, now, sessionVars, coreVars, collectorVars,
                   monitorVars, socketVars, historyVars>>

\* compression is done and the frame goes to a channel: the stream when it
\* is open, a request otherwise; err = NoErr is a success
CompleteAttempt(i, err) ==
    /\ batches[i].phase = "sending"
    /\ IF isConnected /\ websocket = "OPEN"
       THEN err \in StreamFailures \cup {NoErr}
       ELSE err \in config.httpFailures \cup {NoErr}
    /\ LET q == IF err = NoErr THEN sendSucceeded(batches[i])
                ELSE handleSendError(batches[i], err, retryLimit)
       IN  /\ batches' = [batches EXCEPT ![i] = q]
           /\ retryCount' = retryCountOnSettle(q, err)
           /\ flushResolved' = flushResolved \cup
                  (IF q.phase \in {"success", "failed"} THEN q.awaited ELSE {})
    /\ handed' = handed \cup Ids(validEvents(batches[i].events))
    /\ UNCHANGED <<config, sessionHist, asideVars, now, sessionVars, coreVars, collectorVars,
                   monitorVars, socketVars, batchQueue, batchTimer,
                   calls, resizes, lastTrack, destroyFlushed>>

AttemptCompletes ==
    \E i \in 1..Len(batches), err \in HttpFailures \cup StreamFailures \cup {NoErr} :
        CompleteAttempt(i, err)

\* the setTimeout of retryWithBackoff fires: _attemptSend(queuedEvent) again
RetryTimer ==
    \E i \in 1..Len(batches) :
      /\ batches[i].phase = "backoff"
      /\ LET q == attemptSend(batches[i], retryLimit)
         IN  /\ batches' = [batches EXCEPT ![i] = q]
             /\ retryCount' = retryCountAfter(q)
             /\ flushResolved' = flushResolved \cup
                    (IF q.phase = "failed" THEN q.awaited ELSE {})
      /\ UNCHANGED <<config, sessionHist, asideVars, now, sessionVars, coreVars, collectorVars,
                     monitorVars, socketVars, batchQueue, batchTimer,
                     calls, resizes, lastTrack, handed, destroyFlushed>>

\* 'open' event of this.websocket: handleWebSocketOpen; eventQueue is never
\* written, so flushQueuedEvents has nothing to send
handleWebSocketOpen ==
    /\ websocket = "CONNECTING"
    /\ websocket' = "OPEN"
    /\ isConnected' = TRUE
    /\ reconnectAttempts' = 0
    /\ UNCHANGED <<config, sessionHist, now, sessionVars, coreVars, collectorVars,
                   monitorVars, reconnectTimers, detachedClose, closes,
                   queueVars, historyVars>>

WsOpen ==
    /\ handleWebSocketOpen
    /\ UNCHANGED asideVars

\* 'close' event of this.websocket (1000 normal, 1006 abnormal)
WsClose ==
    /\ websocket \in {"CONNECTING", "OPEN"}
    /\ websocket' = "CLOSED"
    /\ \E code \in {1000, 1006} : HandleClose(code)
    /\ UNCHANGED <<config, sessionHist, asideVars, now, sessionVars, coreVars, collectorVars,
                   monitorVars, detachedClose, queueVars, historyVars>>

\* 'close' event of the socket that disconnect() closed and dropped
DetachedClose ==
    /\ detachedClose # "none"
    /\ detachedClose' = "none"
    /\ HandleClose(IF detachedClose = "normal" THEN 1000 ELSE 1006)
    /\ UNCHANGED <<config, sessionHist, asideVars, now, sessionVars, coreVars, collectorVars,
                   monitorVars, websocket, queueVars, historyVars>>

\* the setTimeout of scheduleReconnect fires
ReconnectTimer ==
    /\ reconnectTimers > 0
    /\ reconnectTimers' = reconnectTimers - 1
    /\ websocket' = IF ~isConnected THEN connect(websocket) ELSE websocket
    /\ UNCHANGED <<config, sessionHist, asideVars, now, sessionVars, coreVars, collectorVars,
                   monitorVars, isConnected, reconnectAttempts, detachedClose,
                   closes, queueVars, historyVars>>

Next ==
    \/ Track
    \/ PageView
    \/ Flush
    \/ PeriodicFlush
    \/ Resize
    \/ PerformanceCheck
    \/ UpdateMetrics
    \/ Destroy
    \/ Tick
    \/ BatchTimeout
    \/ AttemptCompletes
    \/ RetryTimer
    \/ WsOpen
    \/ WsClose
    \/ DetachedClose
    \/ ReconnectTimer

Spec == Init /\ [][Next]_vars

\* one instance followed from track() through the transport's retries
RetryNext ==
    \/ Track
    \/ BatchTimeout
    \/ AttemptCompletes
    \/ RetryTimer
    \/ WsOpen
    \/ WsClose
    \/ ReconnectTimer

RetrySpec == RetryInit /\ [][RetryNext]_vars


\* one instance followed through its public calls and DOM events, up to the
\* point where the events are in the transport's batch queue
TrackNext ==
    \/ Track
    \/ PageView
    \/ Flush
    \/ PeriodicFlush
    \/ Resize
    \/ UpdateMetrics
    \/ Destroy
    \/ Tick

TrackSpec == TrackInit /\ [][TrackNext]_vars

(* ------------------- SessionManager on a durable store ---------------- *)
\* generateSessionId: the first two and one whose 32-bit hash has wrapped
\* to a negative number (fractions 0.0097, 0.6321 and 0.0927)
NewSessionIds == { <<97>>, <<97, 97, 97>>, <<97, 97, 97, 97, 97, 97, 97>> }
\* rates passed to shouldTrackSession; 97 is the fraction of <<97>> itself
AskRates == { 0, 97, 5000, 10000 }
\* the values of Date.now() followed (ms): around 0 and around the timeout
Times == { 0, 1 } \cup { sessionTimeout + k : k \in (-1)..MaxSkew }

newMetadata(sid, t) ==
    [sessionId |-> sid, pageCount |-> 0, eventCount |-> 0, lastActivity |-> t]

\* initializeSession(): the stored sessionId if the record is there and
\* valid, else generateSessionId() = id
initializeSession(store, t, id) ==
    IF store # <<>> /\ isSessionValid(store[1], t) THEN store[1].sessionId
    ELSE id

\* loadOrCreateMetadata() for this.sessionId = sid
loadOrCreateMetadata(store, sid, t) ==
    IF store # <<>> /\ store[1].sessionId = sid
    THEN [store[1] EXCEPT !.lastActivity = t]
    ELSE newMetadata(sid, t)

sdkVars == <<coreVars, collectorVars, monitorVars, socketVars, queueVars,
             historyVars, asideVars>>

\* a SessionManager constructed on an empty store; no SDK around it
SessionInit ==
    /\ config = [flushSize |-> 1, maxRetries |-> 0, sampleRate |-> 10000,
                 wsAvailable |-> FALSE, callBudget |-> 0,
                 eventTypes |-> {}, httpFailures |-> {}]
    /\ now = 0
    /\ \E id \in NewSessionIds :
         /\ sessionId = id
         /\ metadata = newMetadata(id, 0)
         /\ stored = <<newMetadata(id, 0)>>
    /\ samplingDecision = <<>>
    /\ isInitialized = FALSE
    /\ isDestroyed = FALSE
    /\ listeners = FALSE
    /\ flushInterval = FALSE
    /\ perfInterval = FALSE
    /\ events = <<>>
    /\ effectiveSampleRate = config.sampleRate
    /\ monitoring = FALSE
    /\ metrics = IdleMetrics
    /\ websocket = "null"
    /\ isConnected = FALSE
    /\ reconnectAttempts = 0
    /\ reconnectTimers = 0
    /\ detachedClose = "none"
    /\ closes = 0
    /\ batchQueue = <<>>
    /\ batchTimer = FALSE
    /\ retryCount = 0
    /\ batches = <<>>
    /\ calls = 0
    /\ resizes = 0
    /\ lastTrack = NoTrack
    /\ handed = {}
    /\ flushResolved = {}
    /\ destroyFlushed = {}
    /\ lastAsk = [n |-> 0, rate |-> 0, result |-> FALSE]
    /\ decidedRate = -1
    /\ loads = 0
    /\ PrivacyIdle /\ PointerIdle /\ LimiterIdle /\ StreamIdle /\ CtorIdle /\ UrlIdle /\ TabsIdle /\ HashIdle

\* shouldTrackSession(rate)
AskSession ==
    /\ lastAsk.n < MaxAsks
    /\ \E rate \in AskRates :
         LET r == shouldTrackSession(samplingDecision, sessionId, rate)
         IN  /\ samplingDecision' =
                    IF samplingDecision = <<>> THEN <<r>> ELSE samplingDecision
             /\ decidedRate' = IF samplingDecision = <<>> THEN rate ELSE decidedRate
             /\ lastAsk' = [n |-> lastAsk.n + 1, rate |-> rate, result |-> r]
    /\ UNCHANGED <<config, now, sessionId, metadata, stored, loads, sdkVars>>

\* shouldTrackEvent(), extendSession(), onBeforeUnload() and the page-hidden
\* branch of onVisibilityChange(): updateActivity()
Activity ==
    /\ metadata' = updateActivity(metadata, now)
    /\ stored' = <<metadata'>>
    /\ UNCHANGED <<config, sessionHist, now, sessionId, samplingDecision, sdkVars>>

\* incrementPageCount() / incrementEventCount()
Increment ==
    /\ \/ /\ metadata.pageCount < MaxCount
          /\ metadata' = incrementPageCount(metadata, now)
       \/ /\ metadata.eventCount < MaxCount
          /\ metadata' = incrementEventCount(metadata, now)
    /\ stored' = <<metadata'>>
    /\ UNCHANGED <<config, sessionHist, now, sessionId, samplingDecision, sdkVars>>

\* onVisibilityChange() with the page visible again
PageVisible ==
    /\ IF isSessionValid(metadata, now)
       THEN /\ metadata' = updateActivity(metadata, now)
            /\ stored' = <<metadata'>>
            /\ UNCHANGED <<sessionId, samplingDecision, decidedRate>>
       ELSE \* createNewSession()
            \E id \in NewSessionIds \ {sessionId} :
              /\ sessionId' = id
              /\ metadata' = loadOrCreateMetadata(stored, id, now)
              /\ stored' = <<metadata'>>
              /\ samplingDecision' = <<>>
              /\ decidedRate' = -1
    /\ UNCHANGED <<config, now, lastAsk, loads, sdkVars>>

\* another tab saves its session and this tab gets the 'storage' event:
\* handleStorageChange(event)
StorageChange ==
    /\ \E id \in NewSessionIds :
         LET newSession == newMetadata(id, now)
         IN  /\ stored' = <<newSession>>
             /\ IF newSession.sessionId # sessionId
                THEN /\ sessionId' = newSession.sessionId
                     /\ metadata' = newSession
                     /\ samplingDecision' = <<>>
                     /\ decidedRate' = -1
                ELSE UNCHANGED <<sessionId, metadata, samplingDecision, decidedRate>>
    /\ UNCHANGED <<config, now, lastAsk, loads, sdkVars>>

\* endSession(): localStorage.removeItem
EndSession ==
    /\ stored # <<>>
    /\ stored' = <<>>
    /\ UNCHANGED <<config, sessionHist, now, sessionId, samplingDecision,
                   metadata, sdkVars>>

\* a page load: `new SessionManager(config)` on what the store holds
Reload ==
    /\ loads < MaxLoads
    /\ loads' = loads + 1
    /\ \E id \in NewSessionIds \ ({sessionId} \cup {stored[i].sessionId : i \in 1..Len(stored)}) :
         /\ sessionId' = initializeSession(stored, now, id)
         /\ metadata' = loadOrCreateMetadata(stored, sessionId', now)
    /\ stored' = <<metadata'>>
    /\ samplingDecision' = <<>>
    /\ decidedRate' = -1
    /\ UNCHANGED <<config, now, lastAsk, sdkVars>>

\* Date.now() moves on
Elapse ==
    /\ \E t \in Times :
         /\ t > now
         /\ now' = t
    /\ UNCHANGED <<config, sessionHist, sessionVars, sdkVars>>

SessionNext ==
    \/ AskSession
    \/ Activity
    \/ Increment
    \/ PageVisible
    \/ StorageChange
    \/ EndSession
    \/ Reload
    \/ Elapse

SessionSpec == SessionInit /\ [][SessionNext]_vars

(* --------------------- PrivacyEngine on its own ----------------------- *)
\* every component but the PrivacyEngine is absent
NoSdk ==
    /\ config = [flushSize |-> 1, maxRetries |-> 0, sampleRate |-> 10000,
                 wsAvailable |-> FALSE, callBudget |-> 0,
                 eventTypes |-> {}, httpFailures |-> {}]
    /\ now = 0
    /\ sessionId = <<97>>
    /\ metadata = newMetadata(<<97>>, 0)
    /\ stored = <<>>
    /\ samplingDecision = <<>>
    /\ isInitialized = FALSE
    /\ isDestroyed = FALSE
    /\ listeners = FALSE
    /\ flushInterval = FALSE
    /\ perfInterval = FALSE
    /\ events = <<>>
    /\ effectiveSampleRate = config.sampleRate
    /\ monitoring = FALSE
    /\ metrics = IdleMetrics
    /\ websocket = "null"
    /\ isConnected = FALSE
    /\ reconnectAttempts = 0
    /\ reconnectTimers = 0
    /\ detachedClose = "none"
    /\ closes = 0
    /\ batchQueue = <<>>
    /\ batchTimer = FALSE
    /\ retryCount = 0
    /\ batches = <<>>
    /\ calls = 0
    /\ resizes = 0
    /\ lastTrack = NoTrack
    /\ handed = {}
    /\ flushResolved = {}
    /\ destroyFlushed = {}
    /\ lastAsk = [n |-> 0, rate |-> 0, result |-> FALSE]
    /\ decidedRate = -1
    /\ loads = 0

PrivacyModes == {"strict", "balanced", "permissive"}

\* keys: 'user_ID' and 'hotel' are sensitive ('userid', 'tel'), 'note' is not
KeyUserId == <<"u", "s", "e", "r", "_", "I", "D">>
KeyHotel  == <<"h", "o", "t", "e", "l">>
KeyNote   == <<"n", "o", "t", "e">>
Keys == {KeyUserId, KeyHotel, KeyNote}

TextEmail  == <<"a", "@", "b", ".", "c", "o">>
TextPhone  == <<"5", "5", "5", "-", "1", "2", "3", "-", "4", "5", "6", "7">>
TextSsn    == <<"1", "2", "3", "4", "5", "6", "7", "8", "9">>
TextCard   == <<"4", "1", "1", "1", " ", "1", "1", "1", "1", " ",
                "1", "1", "1", "1", " ", "1", "1", "1", "1">>
TextIp     == <<"1", "0", ".", "0", ".", "0", ".", "1">>
TextPieces ==
    { TextEmail, TextPhone, TextSsn, TextCard, TextIp,
      <<"x">>, <<" ">>, <<"(">>, <<"+", "1">>, <<".">>, <<maskChar>> }

\* the texts made of at most n pieces
RECURSIVE Texts(_)
Texts(n) ==
    IF n = 0 THEN {<<>>}
    ELSE Texts(n - 1) \cup {t \o piece : t \in Texts(n - 1), piece \in TextPieces}

Leaves == {vNull, vNum(42), vStr(TextEmail), vStr(<<"h", "i">>)}

\* the values nested at most d deep: an object or an array around a value
\* one level less deep (or, in an object, a reference back to the object),
\* alone or followed by a second entry
RECURSIVE Values(_)
Values(d) ==
    IF d = 0 THEN Leaves
    ELSE LET inner == Values(d - 1)
         IN  inner
             \cup { vObject(<<[key |-> k, val |-> v]>>) :
                        k \in Keys, v \in inner \cup {vCycle} }
             \cup { vObject(<<[key |-> k, val |-> v], [key |-> KeyUserId, val |-> w]>>) :
                        k \in {KeyHotel, KeyNote}, v \in inner, w \in {vNum(42)} }
             \cup { vArray(<<v>>) : v \in inner }
             \cup { vArray(<<v, w>>) : v \in inner, w \in {vNull} }

Payloads ==
    Values(MaxDepth)
        \cup { vStr(t) : t \in Texts(MaxPieces) }

FormTargets ==
    [type : {"text", "password", "email"},
     name : {<<>>, <<"q">>, KeyUserId},
     value : {<<>>, <<"s", "e", "c", "r", "e", "t">>}]

FormEvents ==
    { <<>>, <<[target |-> <<>>, eventType |-> "input"]>> }
        \cup { <<[target |-> <<t>>, eventType |-> "input"]>> : t \in FormTargets }

Elements == {<<>>} \cup { <<attrs>> : attrs \in SUBSET sensitiveAttributes }

PrivacyInit ==
    /\ NoSdk /\ PointerIdle /\ LimiterIdle /\ StreamIdle /\ CtorIdle /\ UrlIdle /\ TabsIdle /\ HashIdle
    /\ privacyMode \in PrivacyModes
    /\ passes = <<>>
    /\ formOut = <<>>
    /\ \/ payload \in Payloads /\ formEvent = <<>> /\ element = <<>>
       \/ payload = vNull /\ formEvent \in FormEvents /\ element \in Elements

\* sanitizeData(data), then sanitizeData of what it returned: identify()
\* hands sanitizeData(traits) to track(), which calls sanitizeData again
SanitizeData ==
    /\ Len(passes) < MaxPasses
    /\ passes' = Append(passes, sanitizeData(IF passes = <<>> THEN payload
                                             ELSE passes[Len(passes)]))
    /\ UNCHANGED <<sdkState, pointerVars, limiterVars, streamHist, ctorVars, urlVars, tabVars, hashVars, privacyMode, payload,
                   formEvent, element, formOut>>

\* collectFormEvent: sanitizeFormEvent(formEvent, target)
SanitizeFormEvent ==
    /\ formOut = <<>>
    /\ formOut' = <<sanitizeFormEvent(privacyMode, formEvent, element)>>
    /\ UNCHANGED <<sdkState, pointerVars, limiterVars, streamHist, ctorVars, urlVars, tabVars, hashVars, privacyMode, payload,
                   passes, formEvent, element>>

PrivacyNext == SanitizeData \/ SanitizeFormEvent

PrivacySpec == PrivacyInit /\ [][PrivacyNext]_vars

(* --------------------------- pointer events ---------------------------- *)
KeyX == <<"x">>
KeyY == <<"y">>
KeyTarget == <<"t", "a", "r", "g", "e", "t">>
KeyTextContent == <<"t", "e", "x", "t", "C", "o", "n", "t", "e", "n", "t">>
KeyButton == <<"b", "u", "t", "t", "o", "n">>
KeyTimestamp == <<"t", "i", "m", "e", "s", "t", "a", "m", "p">>

\* clientX and clientY of the DOM events
Coords == {0, 5, 123}

\* the ClickEvent collectClickEvent builds, with the element's text 'OK'
clickEvent(x, y) ==
    vObject(<< [key |-> KeyX, val |-> vNum(x)],
               [key |-> KeyY, val |-> vNum(y)],
               [key |-> KeyTarget,
                val |-> vObject(<<[key |-> KeyTextContent,
                                   val |-> vStr(<<"O", "K">>)]>>)],
               [key |-> KeyButton, val |-> vNum(0)] >>)

\* the MouseMoveEvent collectMouseMoveEventInternal builds
mouseMoveEvent(x, y, t) ==
    vObject(<< [key |-> KeyX, val |-> vNum(x)],
               [key |-> KeyY, val |-> vNum(y)],
               [key |-> KeyTimestamp, val |-> vNum(t)] >>)

\* sanitizeClickEvent: the copy has the target's textContent blocked out;
\* the element carries no attribute that removeSensitiveAttributes deletes
sanitizeClickEvent(ev) ==
    [ev EXCEPT !.e = [i \in DOMAIN ev.e |->
        IF ev.e[i].key # KeyTarget THEN ev.e[i]
        ELSE [ev.e[i] EXCEPT !.val.e = [j \in DOMAIN ev.e[i].val.e |->
                IF ev.e[i].val.e[j].key = KeyTextContent
                THEN [ev.e[i].val.e[j] EXCEPT
                         !.val = vStr(anonymizeText(ev.e[i].val.e[j].val.s))]
                ELSE ev.e[i].val.e[j]]]]]

getMouseMoveSampleRate(m) ==
    IF shouldThrottleEvents(m) THEN 10
    ELSE IF shouldReduceActivity(m) THEN 20
    ELSE 5

\* an admitted, initialized instance in any privacy mode
PointerInit ==
    /\ \E fs \in 1..MaxFlushSize :
         Construct(fs, MaxRetriesCore, 10000, TRUE, <<97>>, MaxPointerCalls,
                   {"click", "mousemove"}, FewHttpFailures)
    /\ privacyMode \in PrivacyModes
    /\ payload = vNull
    /\ passes = <<>>
    /\ formEvent = <<>>
    /\ element = <<>>
    /\ formOut = <<>>
    /\ enableHeatmaps \in BOOLEAN
    /\ mouseMoveCounter = 0
    /\ eventData = {}
    /\ LimiterIdle /\ StreamIdle /\ CtorIdle /\ UrlIdle /\ TabsIdle /\ HashIdle

\* a handler whose guard fails after sessionManager.shouldTrackEvent() ran:
\* the activity stamp is written and nothing else happens
ActivityOnly ==
    /\ metadata' = IF reachesSessionManager(isInitialized, isDestroyed)
                   THEN updateActivity(metadata, now) ELSE metadata
    /\ stored' = IF reachesSessionManager(isInitialized, isDestroyed)
                 THEN <<metadata'>> ELSE stored
    /\ UNCHANGED <<config, sessionHist, now, sessionId, samplingDecision, coreVars,
                   collectorVars, monitorVars, socketVars, queueVars,
                   historyVars, eventData>>

\* what track(type, data) leaves in eventData: the sanitized data of the
\* event it queued
TrackData(data, x, y) ==
    eventData' =
        IF lastTrack'.queued
        THEN eventData \cup {[id |-> lastTrack'.id, captured |-> [x |-> x, y |-> y],
                              data |-> sanitizeData(data)]}
        ELSE eventData

\* handleClick: collectClickEvent, then track('click', clickData)
HandleClick ==
    /\ listeners
    /\ calls < config.callBudget
    /\ \E x \in Coords, y \in Coords, r1 \in RandomValues, r2 \in RandomValues :
         IF /\ shouldTrackEvent(isInitialized, isDestroyed, samplingDecision)
            /\ shouldCollectEvent("click", metrics, r1, effectiveSampleRate)
         THEN /\ TrackBody("click", r2, FALSE)
              /\ TrackData(sanitizeClickEvent(clickEvent(x, y)), x, y)
         ELSE ActivityOnly
    /\ UNCHANGED <<privacyVars, limiterVars, streamHist, ctorVars, urlVars, tabVars, hashVars, enableHeatmaps, mouseMoveCounter>>

\* handleMouseMove: collectMouseMoveEvent through the throttle (recent: the
\* previous accepted move is less than 100 ms old), every n-th accepted move
\* is kept and goes to track('mousemove', mouseMoveData)
HandleMouseMove ==
    /\ listeners
    /\ calls < config.callBudget
    /\ mouseMoveCounter < MaxMoves
    /\ \E x \in Coords, y \in Coords, r1 \in RandomValues, r2 \in RandomValues,
          recent \in BOOLEAN :
         LET accepted ==
                 /\ shouldTrackEvent(isInitialized, isDestroyed, samplingDecision)
                 /\ enableHeatmaps
                 /\ shouldCollectEvent("mousemove", metrics, r1, effectiveSampleRate)
                 /\ ~recent
             kept == (mouseMoveCounter + 1) % getMouseMoveSampleRate(metrics) = 0
         IN  /\ mouseMoveCounter' = IF accepted THEN mouseMoveCounter + 1
                                    ELSE mouseMoveCounter
             /\ IF accepted /\ kept
                THEN /\ TrackBody("mousemove", r2, FALSE)
                     /\ TrackData(mouseMoveEvent(x, y, now), x, y)
                ELSE ActivityOnly
    /\ UNCHANGED <<privacyVars, limiterVars, streamHist, ctorVars, urlVars, tabVars, hashVars, enableHeatmaps>>

PointerNext == HandleClick \/ HandleMouseMove \/ Flush

PointerSpec == PointerInit /\ [][PointerNext]_vars

(* ----------------------- EventTransport, rate limit -------------------- *)
\* checkRateLimit() up to its await: the entries older than the window are
\* dropped; when `requests` entries remain the caller waits for the oldest
\* one to leave the window
checkRateLimit(queue, limit, t) ==
    LET kept == SelectSeq(queue, LAMBDA stamp : stamp > t - limit.window)
    IN  [queue |-> kept,
         waitTime |-> IF Len(kept) >= limit.requests
                      THEN kept[1] + limit.window - t
                      ELSE 0]

\* the values of Date.now() followed (ms)
LimiterTimes ==
    { k * (limitWindow \div 2) : k \in 0..(2 * MaxWindows) }
        \cup { limitWindow - 1, limitWindow + 1 }

\* `new EventTransport({..., rateLimit})`: the constructor builds this.config
\* from apiEndpoint, wsEndpoint, maxRetries, batchSize and batchTimeout, so
\* config.rateLimit is undefined whatever option was given
LimiterInit ==
    /\ NoSdk /\ PrivacyIdle /\ PointerIdle /\ StreamIdle /\ CtorIdle /\ UrlIdle /\ TabsIdle /\ HashIdle
    /\ requestedLimit \in {<<>>, <<[requests |-> limitRequests,
                                   window |-> limitWindow]>>}
    /\ rateLimit = <<>>
    /\ rateLimitQueue = <<>>
    /\ waiters = {}
    /\ asked = <<>>
    /\ admissions = <<>>

\* send([event]) by caller number Len(asked) + 1: the limiter is consulted
\* only `if (this.config.rateLimit)`; a caller that passes goes on to the
\* batch queue
LimiterSend ==
    /\ Len(asked) < MaxSends
    /\ asked' = Append(asked, now)
    /\ LET caller == Len(asked) + 1
           r  == checkRateLimit(rateLimitQueue, rateLimit[1], now)
           tr == send(<<[id |-> caller, type |-> "test", sessionId |-> sessionId]>>)
       IN  IF rateLimit # <<>> /\ r.waitTime > 0
           THEN /\ rateLimitQueue' = r.queue
                /\ waiters' = waiters \cup {[caller |-> caller, stamp |-> now,
                                             wakeAt |-> now + r.waitTime]}
                /\ UNCHANGED <<admissions, queueVars>>
           ELSE /\ rateLimitQueue' = IF rateLimit # <<>>
                                     THEN Append(r.queue, now)
                                     ELSE rateLimitQueue
                /\ admissions' = Append(admissions, [caller |-> caller, at |-> now])
                /\ batchQueue' = tr.batchQueue
                /\ batchTimer' = tr.batchTimer
                /\ batches' = tr.batches
                /\ retryCount' = tr.retryCount
                /\ UNCHANGED waiters
    /\ UNCHANGED <<config, sessionHist, now, sessionVars, coreVars, collectorVars,
                   monitorVars, socketVars, historyVars, privacyVars,
                   pointerVars, streamHist, ctorVars, urlVars, tabVars, hashVars, requestedLimit, rateLimit>>

LimiterElapse ==
    /\ \E t \in LimiterTimes : t > now /\ now' = t
    /\ UNCHANGED <<config, sessionHist, sessionVars, coreVars, collectorVars,
                   monitorVars, socketVars, queueVars, historyVars, asideVars>>

LimiterNext == LimiterSend \/ LimiterElapse

LimiterSpec == LimiterInit /\ [][LimiterNext]_vars

(* ------------------- EventCollector, a buffer left to grow ------------- *)
\* an instance whose window is resized again and again: collectResizeEvent
\* puts its events in the buffer and never flushes it
BufferInit ==
    \E fs \in 1..MaxFlushSize, sr \in SampleRates, sid \in SessionIds :
        /\ Construct(fs, MaxRetriesCore, sr, TRUE, sid, FullCalls,
                     {"test", "error"}, FewHttpFailures)
        /\ PrivacyIdle /\ PointerIdle /\ LimiterIdle /\ StreamIdle /\ CtorIdle /\ UrlIdle /\ TabsIdle /\ HashIdle

BufferResize ==
    /\ resizes < 2 * config.flushSize + MaxOverflow
    /\ ResizeBody

BufferNext == Track \/ BufferResize \/ Flush

BufferSpec == BufferInit /\ [][BufferNext]_vars

(* ------------------- EventTransport, a stream that keeps failing ------- *)
\* an initialized instance whose sockets are closed again and again
ReconnectInit ==
    /\ Construct(1, MaxRetriesCore, 10000, TRUE, <<97>>, RetryCalls, {"test"},
                 FewHttpFailures)
    /\ PrivacyIdle /\ PointerIdle /\ LimiterIdle /\ StreamIdle /\ CtorIdle /\ UrlIdle /\ TabsIdle /\ HashIdle

\* 'close' event of this.websocket, with the history of the codes
StreamClose ==
    /\ websocket \in {"CONNECTING", "OPEN"}
    /\ closes < maxReconnectAttempts + MaxExtraCloses
    /\ websocket' = "CLOSED"
    /\ \E code \in {1000, 1006} :
         /\ handleWebSocketClose(code)
         /\ lastClose' = code
         /\ abnormalRun' = IF code = 1000 THEN 0 ELSE abnormalRun + 1
    /\ UNCHANGED <<config, sessionHist, privacyVars, pointerVars, limiterVars,
                   ctorVars, urlVars, tabVars, hashVars, now, sessionVars, coreVars, collectorVars, monitorVars,
                   detachedClose, queueVars, historyVars>>

\* 'open' event of this.websocket
StreamOpen ==
    /\ handleWebSocketOpen
    /\ abnormalRun' = 0
    /\ UNCHANGED <<privacyVars, pointerVars, limiterVars, ctorVars, urlVars, tabVars, hashVars, lastClose>>

\* transport.connect() called by the application
Connect ==
    /\ websocket' = connect(websocket)
    /\ UNCHANGED <<config, sessionHist, asideVars, now, sessionVars, coreVars,
                   collectorVars, monitorVars, isConnected, reconnectAttempts,
                   reconnectTimers, detachedClose, closes, queueVars,
                   historyVars>>

ReconnectNext ==
    \/ StreamClose
    \/ StreamOpen
    \/ ReconnectTimer
    \/ Connect
    \/ Track

ReconnectSpec == ReconnectInit /\ [][ReconnectNext]_vars

(* --------------------- InsightLiteSDK, construction -------------------- *)
\* arguments of `new InsightLiteSDK(...)`: no object, or an object with or
\* without each of the validated options
SiteIds == { <<>>, << <<>> >>, << <<" ">> >>, << <<"s">> >> }
GivenSampleRates == { <<>>, <<-1>>, <<0>>, <<10000>>, <<10001>> }
GivenFlushIntervals == { <<>>, <<999>>, <<1000>> }
GivenFlushSizes == { <<>>, <<0>>, <<1>>, <<MaxFlushSize>> }

Configurations ==
    { <<>> } \cup
    { <<c>> : c \in [siteId : SiteIds, sampleRate : GivenSampleRates,
                     flushInterval : GivenFlushIntervals,
                     flushSize : GivenFlushSizes] }

\* the page before the call: an empty store, no listener, timer or socket
ConfigInit ==
    /\ NoSdk /\ PrivacyIdle /\ PointerIdle /\ LimiterIdle /\ StreamIdle /\ UrlIdle /\ TabsIdle /\ HashIdle
    /\ given \in Configurations
    /\ thrown = "pending"
    /\ storeAccess = 0

\* `new InsightLiteSDK(given)`: validateConfig is the first statement of the
\* constructor and its throw leaves the constructor; otherwise the
\* components are built (the SessionManager reads the store twice and saves
\* the new record) and, for an admitted session, initialize() runs
NewSdk ==
    /\ thrown = "pending"
    /\ IF validateConfig(given) # ""
       THEN /\ thrown' = validateConfig(given)
            /\ UNCHANGED <<sdkState, given, storeAccess>>
       ELSE \E sid \in SessionIds :
            LET merged   == mergeWithDefaults(given[1])
                admitted == shouldTrackSession(<<>>, sid, merged.sampleRate)
                fresh    == newMetadata(sid, now)
                md       == IF admitted THEN incrementPageCount(fresh, now)
                            ELSE fresh
            IN  /\ thrown' = "returned"
                /\ config' = [flushSize |-> merged.flushSize,
                              maxRetries |-> MaxRetriesCore,
                              sampleRate |-> merged.sampleRate,
                              wsAvailable |-> TRUE, callBudget |-> FullCalls,
                              eventTypes |-> {"test"},
                              httpFailures |-> FewHttpFailures]
                /\ sessionId' = sid
                /\ samplingDecision' = <<admitted>>
                /\ metadata' = md
                /\ stored' = <<md>>
                /\ storeAccess' = IF admitted THEN 4 ELSE 3
                /\ isInitialized' = admitted
                /\ listeners' = admitted
                /\ flushInterval' = admitted
                /\ perfInterval' = admitted
                /\ monitoring' = admitted
                /\ websocket' = IF admitted THEN "CONNECTING" ELSE "null"
                /\ effectiveSampleRate' = merged.sampleRate
                /\ lastAsk' = [n |-> 1, rate |-> merged.sampleRate,
                               result |-> admitted]
                /\ decidedRate' = merged.sampleRate
                /\ UNCHANGED <<given, now, isDestroyed, events, metrics,
                               isConnected, reconnectAttempts, reconnectTimers,
                               detachedClose, closes, queueVars, historyVars,
                               loads>>
    /\ UNCHANGED <<privacyVars, pointerVars, limiterVars, streamHist, urlVars, tabVars, hashVars>>

ConfigNext == NewSdk \/ Track

ConfigSpec == ConfigInit /\ [][ConfigNext]_vars

(* ------------------ PrivacyEngine.sanitizeUrl on its own --------------- *)
ParamKeys == {"email", "token", "page"}
ParamValues == { <<"1">>, <<"a", "@", "b">>, <<"b", "%20", "c">> }
Params == [key : ParamKeys, value : ParamValues]

Queries ==
    { <<>> } \cup
    UNION { { <<ps>> : ps \in [1..n -> Params] } : n \in 1..MaxParams }

Urls ==
    [origin : {"", "https://example.com"}, path : {"", "/products"},
     query : Queries]

UrlInit ==
    /\ NoSdk /\ PrivacyIdle /\ PointerIdle /\ LimiterIdle /\ StreamIdle /\ CtorIdle
    /\ TabsIdle /\ HashIdle
    /\ url \in Urls
    /\ urlOut = <<>>

SanitizeUrl ==
    /\ urlOut = <<>>
    /\ urlOut' = <<sanitizeUrl(url)>>
    /\ UNCHANGED <<sdkState, privacyVars, pointerVars, limiterVars, streamHist,
                   ctorVars, tabVars, hashVars, url>>

UrlSpec == UrlInit /\ [][SanitizeUrl]_vars

(* ------------------- InsightLiteSDK, an instance left idle ------------- *)
\* an instance that keeps running while Date.now() moves past the session
\* timeout: track(), the page becoming visible, flush()
IdleInit ==
    \E fs \in 1..MaxFlushSize, sid \in SessionIds :
        /\ Construct(fs, MaxRetriesCore, 10000, TRUE, sid, MaxCalls, {"test"},
                     FewHttpFailures)
        /\ PrivacyIdle /\ PointerIdle /\ LimiterIdle /\ StreamIdle /\ CtorIdle /\ UrlIdle /\ TabsIdle /\ HashIdle

IdleNext == Track \/ PageView \/ Flush \/ Elapse

IdleSpec == IdleInit /\ [][IdleNext]_vars

(* ------------------- EventTransport, several batches ------------------ *)
\* an admitted instance whose track() calls each reach the transport and
\* whose batches are sealed one after the other, so that the attempts of
\* several batches are under way at the same time
BatchesInit ==
    \E ws \in BOOLEAN :
        /\ Construct(1, MaxRetriesCore, 10000, ws, <<97>>, MaxCalls, {"test"},
                     FewHttpFailures)
        /\ PrivacyIdle /\ PointerIdle /\ LimiterIdle /\ StreamIdle /\ CtorIdle /\ UrlIdle /\ TabsIdle /\ HashIdle

BatchesNext ==
    \/ Track
    \/ BatchTimeout
    \/ AttemptCompletes
    \/ RetryTimer
    \/ WsOpen

BatchesSpec == BatchesInit /\ [][BatchesNext]_vars

(* ------------------- the order of the events in a batch ---------------- *)
\* an admitted instance whose buffer also receives 'resize' events, which
\* validateEvent rejects, followed up to the transmission of its batches
OrderInit ==
    \E fs \in 1..MaxFlushSize :
        /\ Construct(fs, 0, 10000, TRUE, <<97>>, MaxCalls, {"test"},
                     {NetworkError})
        /\ PrivacyIdle /\ PointerIdle /\ LimiterIdle /\ StreamIdle /\ CtorIdle /\ UrlIdle /\ TabsIdle /\ HashIdle

\* enough 'resize' events to overflow the buffer of flushSize 1
OrderResize ==
    /\ resizes < MaxOverflow + 1
    /\ ResizeBody

OrderNext ==
    \/ Track
    \/ OrderResize
    \/ Flush
    \/ BatchTimeout
    \/ AttemptCompletes

OrderSpec == OrderInit /\ [][OrderNext]_vars

(* ---------------- SessionManagers of several tabs, one store ----------- *)
Tabs == 1..MaxTabs

\* handleStorageChange(event) for event.key = storageKey; newValue is <<>>
\* for a null or empty event.newValue, else <<the parsed record>>
handleStorageChange(tab, newValue) ==
    IF newValue # <<>> /\ newValue[1].sessionId # tab.sessionId
    THEN [sessionId |-> newValue[1].sessionId, metadata |-> newValue[1],
          samplingDecision |-> <<>>]
    ELSE tab

\* localStorage.setItem / removeItem by tab t: a 'storage' event is queued
\* for every other tab when the value of the key has changed
storageWrite(t, v) ==
    /\ tabWrites < MaxTabWrites
    /\ tabWrites' = tabWrites + 1
    /\ shared' = v
    /\ inbox' = [u \in Tabs |-> IF u # t /\ v # shared THEN Append(inbox[u], v)
                                ELSE inbox[u]]

\* the tabs were opened on the same valid record and hold its sessionId
TabsInit ==
    /\ NoSdk /\ PrivacyIdle /\ PointerIdle /\ LimiterIdle /\ StreamIdle /\ CtorIdle
    /\ UrlIdle /\ HashIdle
    /\ tabs = [t \in Tabs |-> [sessionId |-> <<97>>,
                               metadata |-> newMetadata(<<97>>, 0),
                               samplingDecision |-> <<>>]]
    /\ shared = <<newMetadata(<<97>>, 0)>>
    /\ inbox = [t \in Tabs |-> <<>>]
    /\ tabWrites = 0

TabFrame ==
    UNCHANGED <<sdkState, privacyVars, pointerVars, limiterVars, streamHist,
                ctorVars, urlVars, hashVars>>

\* onVisibilityChange() of tab t with the page visible again
TabVisible(t) ==
    /\ IF isSessionValid(tabs[t].metadata, now)
       THEN LET md == updateActivity(tabs[t].metadata, now)
            IN  /\ tabs' = [tabs EXCEPT ![t].metadata = md]
                /\ storageWrite(t, <<md>>)
       ELSE \* createNewSession(): generateSessionId() is a fresh UUID
            \E id \in NewSessionIds \ ({tabs[u].sessionId : u \in Tabs}
                        \cup {shared[i].sessionId : i \in DOMAIN shared}) :
              LET md == loadOrCreateMetadata(shared, id, now)
              IN  /\ tabs' = [tabs EXCEPT ![t] = [sessionId |-> id, metadata |-> md,
                                                  samplingDecision |-> <<>>]]
                  /\ storageWrite(t, <<md>>)
    /\ TabFrame

\* shouldTrackEvent() / extendSession() of tab t: updateActivity()
TabActivity(t) ==
    /\ LET md == updateActivity(tabs[t].metadata, now)
       IN  /\ tabs' = [tabs EXCEPT ![t].metadata = md]
           /\ storageWrite(t, <<md>>)
    /\ TabFrame

\* endSession() of tab t
TabEndSession(t) ==
    /\ storageWrite(t, <<>>)
    /\ UNCHANGED tabs
    /\ TabFrame

\* the 'storage' event at the head of the queue of tab t is dispatched
DeliverStorageEvent(t) ==
    /\ inbox[t] # <<>>
    /\ tabs' = [tabs EXCEPT ![t] = handleStorageChange(tabs[t], Head(inbox[t]))]
    /\ inbox' = [inbox EXCEPT ![t] = Tail(inbox[t])]
    /\ UNCHANGED <<shared, tabWrites>>
    /\ TabFrame

TabsNext ==
    \/ \E t \in Tabs : TabVisible(t)
    \/ \E t \in Tabs : TabActivity(t)
    \/ \E t \in Tabs : TabEndSession(t)
    \/ \E t \in Tabs : DeliverStorageEvent(t)
    \/ Elapse

TabsSpec == TabsInit /\ [][TabsNext]_vars

(* ------------------ PrivacyEngine.hashSessionId on its own ------------- *)
\* siteIds made of the characters 'A', 'B' and 'a'
SiteChars == {65, 66, 97}
HashSiteIds == UNION { [1..n -> SiteChars] : n \in 1..MaxSiteLen }

HashInit ==
    /\ NoSdk /\ PrivacyIdle /\ PointerIdle /\ LimiterIdle /\ StreamIdle /\ CtorIdle
    /\ UrlIdle /\ TabsIdle
    /\ hashArgs \in [sessionId : SessionIds, siteId1 : HashSiteIds, siteId2 : HashSiteIds]
    /\ hashOut = <<>>

\* hashSessionId(sessionId, siteId1) and hashSessionId(sessionId, siteId2)
HashSessionId ==
    /\ hashOut = <<>>
    /\ hashOut' = <<hashSessionId(hashArgs.sessionId, hashArgs.siteId1),
                    hashSessionId(hashArgs.sessionId, hashArgs.siteId2)>>
    /\ UNCHANGED <<sdkState, privacyVars, pointerVars, limiterVars, streamHist,
                   ctorVars, urlVars, tabVars, hashArgs>>

HashSpec == HashInit /\ [][HashSessionId]_vars

(* --------------------- the adaptive sample rate ------------------------ *)
\* the metrics of MetricsValues (scores 1 and 0.34) and one whose score,
\* 0.65, is between 0.5 and 0.7
AdaptMetricsValues ==
    MetricsValues \cup { [cpu |-> 50, mem |-> 30, lat |-> 600] }

AdaptInit ==
    \E sr \in SampleRates, sid \in SessionIds :
        /\ Construct(1, MaxRetriesCore, sr, TRUE, sid, MaxCalls, {"test"},
                     FewHttpFailures)
        /\ PrivacyIdle /\ PointerIdle /\ LimiterIdle /\ StreamIdle /\ CtorIdle /\ UrlIdle /\ TabsIdle /\ HashIdle

\* PerformanceMonitor: the observers and the 5 s interval refresh the metrics
ObserveMetrics ==
    /\ monitoring
    /\ \E m \in AdaptMetricsValues : metrics' = m
    /\ UNCHANGED <<config, sessionHist, asideVars, now, sessionVars, coreVars, collectorVars, monitoring,
                   socketVars, queueVars, historyVars>>

AdaptNext == ObserveMetrics \/ PerformanceCheck \/ Track

AdaptSpec == AdaptInit /\ [][AdaptNext]_vars

(* --------------------- every trigger of a flush ------------------------ *)
\* an admitted instance whose buffer is drained by the size threshold, the
\* periodic timer and explicit flushes, and whose batch queue is drained by
\* the batch timer, followed through the retries of its batches
DrainInit ==
    \E fs \in 1..MaxFlushSize :
        /\ Construct(fs, MaxRetriesCore, 10000, TRUE, <<97>>, MaxCalls, {"test"},
                     {NetworkError})
        /\ PrivacyIdle /\ PointerIdle /\ LimiterIdle /\ StreamIdle /\ CtorIdle /\ UrlIdle /\ TabsIdle /\ HashIdle

DrainNext ==
    \/ Track
    \/ Flush
    \/ PeriodicFlush
    \/ BatchTimeout
    \/ AttemptCompletes
    \/ RetryTimer

DrainSpec == DrainInit /\ [][DrainNext]_vars

(* ============================ properties ============================== *)

C2_ClientErrorNotRetried ==
    \A i \in 1..Len(batches) :
        batches[i].last = "client" =>
            /\ batches[i].phase = "failed"
            /\ batches[i].error = 1

\* C3 (as claimed): an attempt that fails for a reason outside the retryable
\* classes (no valid event, an exception thrown by websocket.send) is not
\* retried: the batch is dropped after exactly one attempt.
C3_UnclassifiedNotRetried ==
    \A i \in 1..Len(batches) :
        batches[i].last = "other" =>
            /\ batches[i].phase = "failed"
            /\ batches[i].attempts = 1

\* C3 (amended): a batch is given up before maxRetries retries were made only
\* after a failure that carries an HTTP status below 500 other than 429; a
\* failure that carries no HTTP status is retried like a transient one, so a
\* batch given up after such a failure has had maxRetries+1 attempts.
C3_UnclassifiedRetried ==
    \A i \in 1..Len(batches) :
        /\ (batches[i].phase = "failed" /\ batches[i].retryCount < config.maxRetries)
               => batches[i].last = "client"
        /\ (batches[i].phase = "failed" /\ batches[i].last = "other")
               => batches[i].attempts = config.maxRetries + 1

C3_Witness ==
    \E i \in 1..Len(batches) :
        /\ config.maxRetries >= 1
        /\ batches[i].last = "other"
        /\ batches[i].phase = "backoff"
        /\ validEvents(batches[i].events) = <<>>

\* C4: the delay before the k-th retry of a batch is min(1000 * 2^(k-1), 30000)
\* ms; within one batch the delays never decrease and none exceeds 30000 ms.
C4_BackoffDelays ==
    \A i \in 1..Len(batches) :
        /\ Len(batches[i].delays) = batches[i].retryCount
        /\ \A k \in 1..Len(batches[i].delays) :
               /\ batches[i].delays[k] = Min(1000 * Pow2(k - 1), 30000)
               /\ batches[i].delays[k] <= 30000
               /\ k > 1 => batches[i].delays[k - 1] <= batches[i].delays[k]

C4_Witness ==
    \E i \in 1..Len(batches) :
        /\ Len(batches[i].delays) >= 6
        /\ SubSeq(batches[i].delays, 1, 3) = <<1000, 2000, 4000>>
        /\ batches[i].delays[6] = 30000


\* C5 (as claimed): when the promise of a flush() has resolved, every event
\* that flush() took from the pending buffer has been handed to a channel in
\* some attempt and is no longer in the pending buffer.
C5_FlushedIsHandedOver ==
    /\ flushResolved \subseteq handed
    /\ flushResolved \cap Ids(events) = {}

C7_EveryTrackQueued ==
    (lastTrack.id > 0 /\ lastTrack.live) => lastTrack.queued

\* C8 (as claimed): after destroy() every event that destroy() flushed has
\* been handed to a channel, or is in a batch that still has an attempt or a
\* retry ahead, or waits in the batch queue with the batch timer armed.
C8_DestroyDrains ==
    isDestroyed =>
        \A id \in destroyFlushed :
            \/ id \in handed
            \/ \E i \in 1..Len(batches) :
                   /\ id \in Ids(validEvents(batches[i].events))
                   /\ batches[i].phase \in {"sending", "backoff"}
            \/ id \in Ids(batchQueue) /\ batchTimer

\* C9 (as claimed): once destroy() has returned no timer of the instance is
\* pending: neither the periodic flush interval, the performance-check
\* interval, the monitor interval, the batch timeout, a retry backoff wait
\* nor a reconnect delay.
C9_NoTimerAfterDestroy ==
    isDestroyed =>
        /\ ~flushInterval
        /\ ~perfInterval
        /\ ~monitoring
        /\ ~batchTimer
        /\ reconnectTimers = 0
        /\ \A i \in 1..Len(batches) : batches[i].phase # "backoff"

\* C10: a track() call made while the instance is not initialized or is
\* destroyed changes neither the pending buffer, the session metadata, the
\* persisted session record nor anything in the transport.
C10_DeadTrackIsNoOp ==
    [][ (calls' = calls + 1 /\ ~lastTrack'.page /\ (~isInitialized \/ isDestroyed)) =>
          UNCHANGED <<events, metadata, stored, batchQueue, batchTimer,
                      batches, retryCount>>
      ]_vars

C10_Witness ==
    /\ isDestroyed
    /\ lastTrack.id > 0
    /\ ~lastTrack.page
    /\ ~lastTrack.live
    /\ metadata.eventCount > 0
    /\ metadata.lastActivity < now

\* C11 (as claimed): in a session rejected at construction the pending
\* buffer stays empty, no stream connection exists and nothing reaches the
\* transport, whatever calls and browser events follow.
C11_RejectedSessionIsInert ==
    samplingDecision = <<FALSE>> =>
        /\ events = <<>>
        /\ websocket = "null"
        /\ batchQueue = <<>>
        /\ batches = <<>>
        /\ handed = {}

C13_AdmissionRule ==
    samplingDecision # <<>> =>
        LET d == samplingDecision[1]
            f == hashMod10000(sessionId)
        IN  /\ f \in 0..9999
            /\ d = (f < decidedRate)
            /\ decidedRate = 0 => ~d
            /\ decidedRate = 10000 => d
            /\ \A r \in AskRates :
                 (d /\ r >= decidedRate) => makeSamplingDecision(sessionId, r)

C13_Witness ==
    /\ sessionId = <<97>>
    /\ decidedRate = 97
    /\ samplingDecision = <<FALSE>>

IsMaskString(v) == v.k = "string" /\ \A i \in DOMAIN v.s : v.s[i] = maskChar

RECURSIVE SensitiveKeysMasked(_)
SensitiveKeysMasked(v) ==
    CASE v.k = "object" ->
            \A i \in DOMAIN v.e :
                IF isSensitiveField(v.e[i].key) THEN IsMaskString(v.e[i].val)
                ELSE SensitiveKeysMasked(v.e[i].val)
      [] v.k = "array" -> \A i \in DOMAIN v.e : SensitiveKeysMasked(v.e[i].val)
      [] OTHER -> TRUE

\* C15: in what sanitizeData returns, in every object at any depth (also
\* inside arrays), the value of every key whose normalized name contains a
\* term of the sensitive list is a string of mask characters and nothing
\* else: no number, object or array is left under such a key.
C15_SensitiveKeysMasked ==
    passes # <<>> => SensitiveKeysMasked(passes[1])

\* an object inside an array holds the number 42 under 'user_ID'
C15_Witness ==
    /\ payload = vArray(<<vObject(<<[key |-> KeyUserId, val |-> vNum(42)]>>)>>)
    /\ passes # <<>>
    /\ passes[1] = vArray(<<vObject(<<[key |-> KeyUserId,
                                       val |-> vStr(<<maskChar, maskChar>>)]>>)>>)

\* the x or y entry of an event's data
coordinate(data, name) ==
    data.e[CHOOSE i \in DOMAIN data.e : data.e[i].key = name].val

InBufferOrSent ==
    Ids(events) \cup Ids(batchQueue)
        \cup UNION { Ids(batches[i].events) : i \in DOMAIN batches }

\* C16: every x and y of a click or mouse-move event that is in the
\* pending buffer or was given to the transport is floor(v/10)*10 of the
\* coordinate the DOM event carried, hence a multiple of 10, whatever the
\* privacy mode.
C16_CoordinatesTruncated ==
    \A d \in eventData :
        d.id \in InBufferOrSent =>
            /\ coordinate(d.data, KeyX).n = truncateCoordinates(d.captured).x
            /\ coordinate(d.data, KeyY).n = truncateCoordinates(d.captured).y
            /\ coordinate(d.data, KeyX).n % 10 = 0
            /\ coordinate(d.data, KeyY).n % 10 = 0

\* the element carries one of the engine's marker attributes
MarkedSensitive(el) == \E a \in sensitiveAttributes : hasAttribute(el, a)

\* C17: sanitizeFormEvent returns the input value masked exactly when: the
\* mode is strict; or the mode is balanced and the type is password or
\* email, or the name matches the sensitivity heuristic, or the element is
\* explicitly marked sensitive; or the mode is permissive and the element
\* is explicitly marked sensitive or the type is password.  Otherwise the
\* value is returned unchanged.
C17_MaskedExactlyWhen ==
    formOut # <<>> /\ formEvent # <<>> /\ formEvent[1].target # <<>> =>
        LET target == formEvent[1].target[1]
            masks ==
                CASE privacyMode = "strict" -> TRUE
                  [] privacyMode = "balanced" ->
                        \/ target.type \in {"password", "email"}
                        \/ isSensitiveField(target.name)
                        \/ MarkedSensitive(element)
                  [] privacyMode = "permissive" ->
                        \/ MarkedSensitive(element)
                        \/ target.type = "password"
        IN  formOut[1][1].target[1].value =
                IF masks THEN repeat(maskChar, Len(target.value))
                ELSE target.value

\* C18: sanitizeData is idempotent: applied to what it returned, it
\* returns the same value again, for scalars, strings with and without
\* pattern matches, objects, arrays, sensitive keys and cycles.  This is
\* what identify() relies on: track() sanitizes the sanitized traits again.
C18_SanitizeIdempotent ==
    \A i \in 1..(Len(passes) - 1) : passes[i + 1] = passes[i]

\* an e-mail address inside an array, next to a sensitive key, twice sanitized
C18_Witness ==
    /\ payload = vObject(<< [key |-> KeyNote,
                             val |-> vArray(<<vStr(TextEmail), vNull>>)],
                            [key |-> KeyUserId, val |-> vNum(42)] >>)
    /\ Len(passes) = 2
    /\ passes[1] # payload
    /\ passes[2] = passes[1]

\* C19: under the rate limit {requests, window} the transport was given,
\* no interval of length window holds more than `requests` admissions:
\* any requests + 1 of them are at least `window` apart, however many
\* send() calls are made at once.
C19_WindowBound ==
    requestedLimit # <<>> =>
        \A i \in DOMAIN admissions, j \in DOMAIN admissions :
            j - i >= requestedLimit[1].requests =>
                admissions[j].at - admissions[i].at >= requestedLimit[1].window

\* C20: with the rate limit {requests: N, window: W} the first N calls are
\* admitted at once and call N + 1 is admitted no earlier than W ms after
\* the first admission.
C20_DelayedPastWindow ==
    requestedLimit # <<>> =>
        \A i \in DOMAIN admissions :
            /\ admissions[i].caller <= requestedLimit[1].requests =>
                   admissions[i].at = asked[admissions[i].caller]
            /\ admissions[i].caller = requestedLimit[1].requests + 1 =>
                   admissions[i].at >= admissions[1].at + requestedLimit[1].window

\* C21: the pending buffer never holds more than 2 * flushSize events; the
\* append made on a buffer of 2 * flushSize events leaves exactly the most
\* recent flushSize events (the newest flushSize - 1 of the old ones, in
\* their order, then the new one) and discards the oldest.  What is left is
\* the buffer itself after a 'resize' callback and the batch that track()
\* dispatches at once after its own append.
Appended ==
    \/ resizes' # resizes /\ events' # events
    \/ calls' # calls /\ lastTrack'.queued

LeftByAppend == IF calls' # calls THEN lastTrack'.dispatched ELSE events'

CutToRecent ==
    LET fs == config.flushSize
    IN  (Len(events) = 2 * fs /\ Appended) =>
            /\ Len(LeftByAppend) = fs
            /\ SubSeq(LeftByAppend, 1, fs - 1) = SubSeq(events, fs + 2, 2 * fs)
            /\ LeftByAppend[fs].id \notin Ids(events)

C21_BufferBounded ==
    /\ [](Len(events) <= 2 * config.flushSize)
    /\ [][CutToRecent]_vars

\* every 'resize' was collected (sample rate 1, idle metrics), nothing was
\* flushed, and of the 2 * flushSize + 1 events only flushSize are left
C21_Witness ==
    /\ config.sampleRate = 10000
    /\ config.flushSize = MaxFlushSize
    /\ resizes = 2 * config.flushSize + 1
    /\ calls = 0
    /\ batchQueue = <<>>
    /\ batches = <<>>
    /\ Len(events) = config.flushSize
    /\ events[Len(events)].id = 0 - resizes

\* C22: when the stream opens, what was queued in the transport while it
\* was not open is sent over it, and getQueueSize() is 0 once the 'open'
\* handler has run.
C22_OpenFlushesQueue ==
    [][(websocket = "CONNECTING" /\ websocket' = "OPEN") => getQueueSize' = 0]_vars

\* C23: the reconnect counter never exceeds maxReconnectAttempts (5); a
\* 'close' that follows 5 abnormal closes in a row with no 'open' in between
\* schedules no reconnection, a 'close' with code 1000 schedules none, and
\* an 'open' resets the counter to 0.
ReconnectRules ==
    /\ (closes' # closes /\ abnormalRun >= maxReconnectAttempts) =>
           reconnectTimers' = reconnectTimers
    /\ (closes' # closes /\ lastClose' = 1000) =>
           reconnectTimers' = reconnectTimers
    /\ (websocket # "OPEN" /\ websocket' = "OPEN") => reconnectAttempts' = 0

C24_SuccessResetsRetryCount ==
    [][\A i \in 1..Len(batches) :
          batches'[i].success > batches[i].success => retryCount' = 0]_vars

\* a batch was delivered at its third attempt or later
C24_Witness ==
    \E i \in 1..Len(batches) :
        /\ batches[i].phase = "success"
        /\ batches[i].retryCount >= 2
        /\ retryCount = 0

\* C25: after construction of an admitted, initialized instance the initial
\* page-view event is in the pending buffer: with every event collected
\* (sample rate 1, idle metrics), nothing flushed and no other source of
\* events, the buffer holds 1 event before any track() call and n + 1 after
\* n track() calls that stay below the flush threshold.
C25_InitialPageViewBuffered ==
    ( /\ isInitialized
      /\ ~isDestroyed
      /\ config.sampleRate = 10000
      /\ metrics = IdleMetrics
      /\ resizes = 0
      /\ batchQueue = <<>>
      /\ batches = <<>>
      /\ calls + 1 < config.flushSize )
    => Len(events) = calls + 1

\* C26: constructing the SDK with a missing or empty siteId, a sampleRate
\* outside [0,1], a flushInterval below 1000 ms or a flushSize below 1
\* throws, and does so before any side effect: the session record is
\* neither read nor written, no listener or timer is registered and no
\* connection is opened.
InvalidConfiguration(c) ==
    \/ c.siteId = <<>> \/ c.siteId[1] = <<>>
    \/ c.sampleRate # <<>> /\ (c.sampleRate[1] < 0 \/ c.sampleRate[1] > 10000)
    \/ c.flushInterval # <<>> /\ c.flushInterval[1] < 1000
    \/ c.flushSize # <<>> /\ c.flushSize[1] < 1

NoSideEffect ==
    /\ storeAccess = 0
    /\ stored = <<>>
    /\ ~listeners
    /\ ~flushInterval /\ ~perfInterval /\ ~monitoring /\ ~batchTimer
    /\ reconnectTimers = 0
    /\ websocket = "null"

C26_InvalidConfigThrowsFirst ==
    (thrown # "pending" /\ given # <<>> /\ InvalidConfiguration(given[1])) =>
        /\ thrown # "returned"
        /\ NoSideEffect

\* the constructor threw on a flushInterval of 999 ms, every other option valid
C26_Witness ==
    /\ thrown = "flushInterval must be a number >= 1000ms"
    /\ given[1].flushInterval = <<999>>
    /\ given[1].siteId = << <<"s">> >>

\* what NewSdk builds is the state that the other specifications start from
NewSdkAsConstructed ==
    (thrown = "returned" /\ given # <<>> /\ calls = 0) =>
        Construct(config.flushSize, config.maxRetries, config.sampleRate,
                  config.wsAvailable, sessionId, config.callBudget,
                  config.eventTypes, config.httpFailures)

\* C27: sanitizeUrl replaces the value of every query parameter whose key is
\* in the sensitive-parameter list with 8 mask characters, leaves the key
\* and value of every other parameter unchanged, returns a URL that has no
\* sensitive parameter unchanged, and returns a non-parseable URL unchanged.
IsSensitiveParam(name) == \E k \in DOMAIN sensitiveParams : sensitiveParams[k] = name

OtherParams(u) == SelectSeq(searchParams(u), LAMBDA q : ~IsSensitiveParam(q.key))

SensitiveParamsMasked ==
    LET out == searchParams(urlOut[1])
    IN  /\ \A i \in DOMAIN out :
              IsSensitiveParam(out[i].key) => out[i].value = repeat(maskChar, 8)
        /\ \A name \in ParamKeys :
              has(searchParams(url), name) => has(out, name)

OtherParamsKept == OtherParams(urlOut[1]) = OtherParams(url)

UnparseableUrlKept == ~parses(url) => urlOut[1] = url

PlainUrlKept ==
    (\A name \in ParamKeys : IsSensitiveParam(name) => ~has(searchParams(url), name))
        => urlOut[1] = url

C27_SanitizeUrl ==
    urlOut # <<>> =>
        /\ UnparseableUrlKept
        /\ parses(url) => SensitiveParamsMasked /\ OtherParamsKept
        /\ PlainUrlKept

\* the parts of C27 that hold of the code
SanitizeUrlButIdentity ==
    urlOut # <<>> =>
        /\ UnparseableUrlKept
        /\ parses(url) => SensitiveParamsMasked /\ OtherParamsKept
        /\ (parses(url) /\ url.path # "") => PlainUrlKept

\* C28: each batch follows PENDING -> SENDING -> {SUCCESS | RETRYING ->
\* SENDING -> ... -> FAILED}: at most one terminal notification is ever
\* emitted for a batch (never both 'success' and 'error', never the same one
\* twice), and no send attempt is made for it after that notification.
Terminal(q) == q.phase \in {"success", "failed"}

OneNotification(q) ==
    /\ q.success + q.error <= 1
    /\ q.success = 1 <=> q.phase = "success"
    /\ q.error = 1 <=> q.phase = "failed"

\* an attempt that finds no valid event fails before its first await: its
\* SENDING state is entered and left within the step of the retry timer
BatchTransition(old, new) ==
    \/ new = old
    \/ /\ old.phase = "sending"
       /\ new.phase \in {"success", "backoff", "failed"}
       /\ new.attempts = old.attempts
    \/ /\ old.phase = "backoff"
       /\ new.phase \in {"sending", "backoff", "failed"}
       /\ new.attempts = old.attempts + 1

C28_BatchStateMachine ==
    /\ [](\A i \in 1..Len(batches) : OneNotification(batches[i]))
    /\ [][\A i \in 1..Len(batches) :
             /\ BatchTransition(batches[i], batches'[i])
             /\ Terminal(batches[i]) => batches'[i] = batches[i]]_vars

\* a batch given up at its third attempt, on an error that is not retried
C28_Witness ==
    \E i \in 1..Len(batches) :
        /\ batches[i].phase = "failed"
        /\ batches[i].attempts = 3
        /\ batches[i].error = 1
        /\ batches[i].last = "client"

\* C29: after 30 minutes or more without activity the session is
\* invalidated also for an instance that keeps running: the next event it
\* tracks carries a new sessionId, never the expired one.
TrackedNow == SelectSeq(events' \o lastTrack'.dispatched, LAMBDA e : e.id = calls')

C29_IdleSessionRenewed ==
    [][(/\ calls' # calls
        /\ isInitialized /\ ~isDestroyed
        /\ now - metadata.lastActivity >= sessionTimeout)
       => \A i \in DOMAIN TrackedNow : TrackedNow[i].sessionId # sessionId]_vars

\* C30: no batch handed to a channel contains more events than the
\* configured count bound, flushSize for the batches of the SDK and
\* batchSize for the transport: the events of several flushes are not
\* merged into one larger batch.
C30_BatchSizeBounded ==
    \A i \in DOMAIN batches :
        /\ Len(batches[i].events) <= config.flushSize
        /\ Len(batches[i].events) <= batchSize

\* C31: batches are dispatched in enqueue order: if batch A was sealed
\* before batch B, the first attempt of A is handed to the channel before
\* the first attempt of B, whenever the compression of A completes.
AwaitsFirstHandOver(i) ==
    batches[i].phase = "sending" /\ batches[i].attempts = 1

FirstHandOver(j) ==
    AwaitsFirstHandOver(j) /\ batches'[j] # batches[j]

C31_DispatchedInEnqueueOrder ==
    [][\A j \in DOMAIN batches :
         FirstHandOver(j) => \A i \in 1..(j - 1) : ~AwaitsFirstHandOver(i)]_vars

\* C32: within every transmitted batch the events appear in the order of
\* the track() calls that produced them; buffering, overflow truncation,
\* coalescing in the transport and validation filtering never reorder them.
\* The events of track() carry the number of their call as id.
Tracked(evs) == SelectSeq(evs, LAMBDA e : e.id > 0)

InCallOrder(evs) ==
    \A i, j \in DOMAIN evs : i < j => evs[i].id < evs[j].id

C32_BatchInCallOrder ==
    /\ InCallOrder(Tracked(events))
    /\ InCallOrder(Tracked(batchQueue))
    /\ \A i \in DOMAIN batches :
         /\ InCallOrder(Tracked(batches[i].events))
         /\ InCallOrder(Tracked(validEvents(batches[i].events)))

C32_Witness ==
    \E i \in DOMAIN batches :
        /\ batches[i].phase = "success"
        /\ Len(Tracked(validEvents(batches[i].events))) >= 2
        /\ Len(validEvents(batches[i].events)) < Len(batches[i].events)

\* C33: after disconnect() has returned the transport stays disconnected:
\* isConnected remains false and no new stream connection is created, not
\* even by a reconnect timer scheduled earlier.  The SDK calls disconnect()
\* in destroy() and connect() nowhere after it.
C33_StaysDisconnected ==
    isDestroyed => websocket = "null" /\ ~isConnected

\* the events that track() created (the collector's own 'resize' events
\* carry no call number) and that the buffer or the transport holds
\* (RECURSIVE: the events of all the batches, in order)
RECURSIVE eventsOf(_)
eventsOf(bs) ==
    IF bs = <<>> THEN <<>> ELSE Head(bs).events \o eventsOf(Tail(bs))

HeldCoreEvents == Tracked(events \o batchQueue \o eventsOf(batches))

\* C34: every event created by the core and held in the pending buffer or
\* in a transport queue has a non-empty type and a non-empty sessionId, the
\* session id current when it was created (its timestamp is Date.now()).
C34_EventInvariant ==
    \A i \in DOMAIN HeldCoreEvents :
        /\ HeldCoreEvents[i].type # ""
        /\ HeldCoreEvents[i].sessionId # <<>>
        /\ HeldCoreEvents[i].sessionId = sessionId

\* what holds of them: the sessionId part
EventSessionIdKept ==
    \A i \in DOMAIN HeldCoreEvents :
        /\ HeldCoreEvents[i].sessionId # <<>>
        /\ HeldCoreEvents[i].sessionId = sessionId

\* every 'storage' event has been dispatched
AllDelivered == \A t \in Tabs : inbox[t] = <<>>

SiblingsAgree ==
    AllDelivered /\ shared # <<>>
        => \A t \in Tabs : tabs[t].sessionId = shared[1].sessionId

\* what the dispatch of a 'storage' event does to the tab that receives it
AdoptionRule ==
    \A t \in Tabs :
        inbox[t] # <<>> /\ inbox'[t] = Tail(inbox[t]) =>
            LET v == Head(inbox[t])
            IN  IF v # <<>> /\ v[1].sessionId # tabs[t].sessionId
                THEN /\ tabs'[t].sessionId = v[1].sessionId
                     /\ tabs'[t].metadata = v[1]
                ELSE tabs'[t] = tabs[t]

\* C35: a change notification with the record of a sibling that has another
\* sessionId makes the instance adopt that sessionId and metadata, one with
\* its own sessionId or an empty value changes nothing, and once all the
\* notifications are delivered every instance holds the sessionId of the
\* stored record.
C35_SiblingsConverge == []SiblingsAgree /\ [][AdoptionRule]_vars

\* the adoption part alone
AdoptionHolds == [][AdoptionRule]_vars

\* C36: hashSessionId(sessionId, siteId) is a deterministic function of its
\* two inputs, and for a fixed sessionId two different siteIds give
\* different outputs.
C36_HashSeparatesSites ==
    hashOut # <<>> =>
        /\ hashOut[1] = hashSessionId(hashArgs.sessionId, hashArgs.siteId1)
        /\ hashArgs.siteId1 = hashArgs.siteId2 => hashOut[1] = hashOut[2]
        /\ hashArgs.siteId1 # hashArgs.siteId2 => hashOut[1] # hashOut[2]

\* the determinism part alone
HashDeterministic ==
    hashOut # <<>> =>
        /\ hashOut[1] = hashSessionId(hashArgs.sessionId, hashArgs.siteId1)
        /\ hashArgs.siteId1 = hashArgs.siteId2 => hashOut[1] = hashOut[2]

\* the factor of getAdaptiveSampleRate for a score, in percent
adaptiveFactor(score) ==
    IF score < 50 THEN 50 ELSE IF score < 70 THEN 75 ELSE 100

EffectiveRateFromBase ==
    /\ effectiveSampleRate \in { (config.sampleRate * f) \div 100 : f \in {50, 75, 100} }
    /\ 0 <= effectiveSampleRate
    /\ effectiveSampleRate <= config.sampleRate

AdjustmentRule ==
    effectiveSampleRate' # effectiveSampleRate =>
        /\ effectiveSampleRate' =
             (config.sampleRate * adaptiveFactor(calculatePerformanceScore(metrics))) \div 100
        /\ UNCHANGED <<config, sessionHist, asideVars, now, sessionVars, coreVars,
                       events, monitorVars, socketVars, queueVars, historyVars>>

SessionReplacedUnsetsDecision ==
    sessionId' # sessionId => samplingDecision' = <<>>

UnsetDecisionDropsEvents ==
    samplingDecision = <<>> =>
        /\ ~sessionShouldTrackEvent(samplingDecision)
        /\ \A init, destroyed \in BOOLEAN :
               ~shouldTrackEvent(init, destroyed, samplingDecision)

OnlyAskRestoresDecision ==
    samplingDecision = <<>> /\ samplingDecision' # <<>> =>
        /\ lastAsk'.n = lastAsk.n + 1
        /\ samplingDecision' = <<lastAsk'.result>>

\* C38: after a SessionManager has replaced its session (createNewSession
\* or the adoption of a sibling's session) the sampling decision is unset
\* and shouldTrackEvent() returns false, so every track() is dropped, until
\* shouldTrackSession() is called again; nothing else restores tracking.
C38_ReplacedSessionStopsTracking ==
    /\ [][SessionReplacedUnsetsDecision]_vars
    /\ []UnsetDecisionDropsEvents
    /\ [][OnlyAskRestoresDecision]_vars

\* a manager that had admitted its session has replaced it and has not
\* been asked since
C38_Witness ==
    /\ loads = 0
    /\ lastAsk.n >= 1 /\ lastAsk.result
    /\ samplingDecision = <<>>

OwnRetryBudget(i) ==
    /\ batches[i].attempts <= config.maxRetries + 1
    /\ batches[i].attempts =
           IF batches[i].phase = "backoff" THEN batches[i].retryCount
           ELSE batches[i].retryCount + 1
    /\ batches[i].pure /\ batches[i].phase = "failed"
           => batches[i].attempts = config.maxRetries + 1

OwnBackoffDelays(i) ==
    /\ Len(batches[i].delays) = batches[i].retryCount
    /\ \A k \in DOMAIN batches[i].delays :
           batches[i].delays[k] = backoffDelay(k)

OneBatchPerStep ==
    \A i, j \in DOMAIN batches :
        i # j /\ batches'[j] # batches[j] => batches'[i] = batches[i]

\* C39: the retry budget is per batch: the success of another batch, which
\* resets the shared retry counter, or the failure of another batch never
\* changes the number of attempts a batch receives, at most maxRetries+1
\* (exactly that many when all of them fail with a transient error), and
\* never changes its backoff delays.
C39_RetryBudgetPerBatch ==
    /\ [](\A i \in DOMAIN batches : OwnRetryBudget(i) /\ OwnBackoffDelays(i))
    /\ [][OneBatchPerStep]_vars

\* a batch was retried and given up, and another batch succeeded after the
\* first retry had begun: the shared counter is back to 0
C39_Witness ==
    \E i, j \in DOMAIN batches :
        /\ i # j
        /\ config.maxRetries >= 1
        /\ batches[i].pure /\ batches[i].phase = "failed"
        /\ batches[i].retryCount = config.maxRetries
        /\ batches[j].phase = "success"
        /\ retryCount = 0

\* C40: every tracked event is placed in at most one batch: the buffer and
\* the batch queue are each drained in one step, so no flush trigger puts
\* an event that another has taken into a second batch, and an event is
\* transmitted again only by the retries of its own batch.
C40_EventInOneBatch ==
    LET held == events \o batchQueue \o eventsOf(batches)
    IN  \A i, j \in DOMAIN held : i # j => held[i].id # held[j].id

\* two batches made by different drains, one of them transmitted twice
C40_Witness ==
    \E i, j \in DOMAIN batches :
        /\ i # j
        /\ batches[i].attempts >= 2
        /\ batches[i].phase = "success"
        /\ Tracked(batches[i].events) # <<>>
        /\ Tracked(batches[j].events) # <<>>

====
